---- MODULE Spec2Model ----
(***************************************************************************)
(* Model of the rust-table log-structured store: the self-delimiting codec *)
(* (src/src/encode.rs, src/src/decode.rs) and the Table engine             *)
(* (src/src/table.rs) over a small file system.                            *)
(*                                                                         *)
(* An i64 is kept at its full width: it is represented by the 8 bytes of   *)
(* its two's complement form, most significant byte first.  A byte string  *)
(* is a sequence over 0..255.  A file is a sequence of bytes, or Absent.   *)
(***************************************************************************)
EXTENDS Integers, Sequences, FiniteSets, TLC

\* ------------------------------------------------------------------ bounds
\* number of Table method calls (get, iteration, insert, remove, compact) in a
\* run without I/O failures, and in a run with I/O failures
MaxOps == 3

MaxFaultOps == 2
\* number of I/O failures the environment injects in a run with I/O failures
MaxFaults == 1
\* a failing write_all has written at most this many bytes of its buffer
MaxPartial == 2
\* number of fragments a log file found on disk is made of
MaxPieces == 3
\* number of values encoded into one buffer when the codec is run on its own
MaxItems == 2
\* a reader over a cut buffer holds at most this many bytes of it, or lacks
\* at most this many
MaxCut == 4
\* number of items of the arrays and objects that JSON::cmp is run on
MaxElems == 2
\* number of pieces a text given to json_decode and json_decode_all is made of
MaxText == 3
\* number of bytes a connection delivers
MaxStream == 4

\* Table method calls of a run that compacts over leftover files
MaxTmpOps == 2
\* length of the longest file left at a path~
MaxLeft == 30
\* bits of the longest of the short fractions of the f64 converted to bytes
MaxFrac == 3
\* actions returned by one run of a reader
MaxTodo == 2
\* ------------------------------------------------------------- byte helpers
Byte == 0..255

Min(a, b) == IF a < b THEN a ELSE b

\* u8 as i8
AsI8(b) == IF b < 128 THEN b ELSE b - 256

\* the sequence of n copies of b
Rep(b, n) == [i \in 1..n |-> b]

\* s[from+1 .. from+n], the n bytes after offset from
Slice(s, from, n) == SubSeq(s, from + 1, from + n)

RECURSIVE Concat(_)
Concat(ss) == IF ss = <<>> THEN <<>> ELSE Head(ss) \o Concat(Tail(ss))

\* ---------------------------------------------------------------- i64 values
\* the i64 with the (small) mathematical value n, as 8 bytes big-endian
I64(n) ==
  LET ext == IF n < 0 THEN 255 ELSE 0
  IN  << ext, ext, ext, ext,
         (n \div 16777216) % 256, (n \div 65536) % 256, (n \div 256) % 256, n % 256 >>

\* byte-wise unsigned lexicographic order on equal-length sequences
LexLess(a, b) ==
  \E i \in 1..Len(a) : a[i] < b[i] /\ \A j \in 1..(i - 1) : a[j] = b[j]

\* signed order of i64 (Ord for i64): flip the sign bit, then compare bytes
I64Less(a, b) ==
  LexLess([a EXCEPT ![1] = (a[1] + 128) % 256], [b EXCEPT ![1] = (b[1] + 128) % 256])

I64Leq(a, b) == a = b \/ I64Less(a, b)

\* ------------------------------------------------------------------ encode
\* mutant: every n below 256 takes the one-byte form
encode_u64_byte(n) ==
  IF n < 256 THEN << n >>
  ELSE IF n < 65536 THEN << 253, (n \div 256) % 256, n % 256 >>
  ELSE << 254, 0, 0, 0, 0,
          (n \div 16777216) % 256, (n \div 65536) % 256, (n \div 256) % 256, n % 256 >>

\* impl Encode for u64: the write_all buffer for n (n below 2^31 in this model)
encode_u64(n) ==
  IF n < 253 THEN << n % 256 >>
  ELSE IF n < 65536 THEN << 253, (n \div 256) % 256, n % 256 >>
  ELSE << 254, 0, 0, 0, 0,
          (n \div 16777216) % 256, (n \div 65536) % 256, (n \div 256) % 256, n % 256 >>

\* mutant: the one-byte form is taken to reach up to 255
encode_size_u64_byte(n) == IF n < 256 THEN 1 ELSE IF n < 65536 THEN 3 ELSE 9

encode_size_u64(n) == IF n < 253 THEN 1 ELSE IF n < 65536 THEN 3 ELSE 9

\* mutant: the one-byte form takes the whole i8 range
encode_i64_i8(k) ==
  IF I64Leq(I64(-128), k) /\ I64Less(k, I64(128)) THEN << k[8] >>
  ELSE IF I64Leq(I64(-32768), k) /\ I64Less(k, I64(32768)) THEN << 129, k[7], k[8] >>
  ELSE << 128 >> \o k

\* impl Encode for i64: the write_all buffer for the i64 k
encode_i64(k) ==
  IF I64Less(I64(-127), k) /\ I64Less(k, I64(128)) THEN << k[8] >>
  ELSE IF I64Leq(I64(-32768), k) /\ I64Less(k, I64(32768)) THEN << 129, k[7], k[8] >>
  ELSE << 128 >> \o k

encode_size_i64(k) ==
  IF I64Less(I64(-127), k) /\ I64Less(k, I64(128)) THEN 1
  ELSE IF I64Leq(I64(-32768), k) /\ I64Less(k, I64(32768)) THEN 3
  ELSE 9

\* impl Encode for Option<u64>, None: one byte 0xFF
encode_none == << 255 >>

\* impl Encode for Option<u64>; an option is None or Some(n)
encode_opt(o) == IF o = <<>> THEN encode_none ELSE encode_u64(o[1])

encode_size_opt(o) == IF o = <<>> THEN 1 ELSE encode_size_u64(o[1])

\* impl Encode for &[u8]: the successive write_all buffers (length, then payload)
encode_bytes_writes(v) == << encode_u64(Len(v)), v >>

\* mutant: the payload is written without its length
encode_bytes_nolen(v) == v

encode_bytes(v) == Concat(encode_bytes_writes(v))

encode_size_bytes(v) == encode_size_u64(Len(v)) + Len(v)

\* mutant: the keys are compared as unsigned bytes
RECURSIVE SortedKeysUnsigned(_)
SortedKeysUnsigned(ks) ==
  IF ks = {} THEN <<>>
  ELSE LET k == CHOOSE x \in ks : \A y \in ks : x = y \/ LexLess(x, y)
       IN  << k >> \o SortedKeysUnsigned(ks \ {k})

\* BTreeMap iteration order: the keys of m in ascending i64 order
RECURSIVE SortedKeys(_)
SortedKeys(ks) ==
  IF ks = {} THEN <<>>
  ELSE LET k == CHOOSE x \in ks : \A y \in ks : I64Leq(x, y)
       IN  << k >> \o SortedKeys(ks \ {k})

\* impl Encode for BTreeMap<i64, Vec<u8>>: the successive write_all buffers
encode_map_writes(m) ==
  LET ks == SortedKeys(DOMAIN m)
  IN  Concat([i \in 1..Len(ks) |-> << encode_i64(ks[i]) >> \o encode_bytes_writes(m[ks[i]])])

encode_map(m) == Concat(encode_map_writes(m))

RECURSIVE SumSizes(_, _)
SumSizes(m, ks) ==
  IF ks = <<>> THEN 0
  ELSE encode_size_i64(Head(ks)) + encode_size_bytes(m[Head(ks)]) + SumSizes(m, Tail(ks))

encode_size_map(m) == SumSizes(m, SortedKeys(DOMAIN m))

\* ------------------------------------------------------------------ decode
\* A decoder reads bytes from offset pos of the reader.  Its outcome is a
\* record: res is "Ok" or the DecodeError, val the decoded value, pulled the
\* number of bytes its read calls took from the reader, nread what it added
\* to stats.read, disc what it added to stats.discarded.
Outcome(res, val, pulled, nread, disc) ==
  [res |-> res, val |-> val, pulled |-> pulled, nread |-> nread, disc |-> disc]

\* the u64 accumulated from 8 big-endian bytes; lengths of 2^31 - 1 or more
\* are beyond every file of the model and saturate
u64_from_be(b) ==
  IF b[1] = 0 /\ b[2] = 0 /\ b[3] = 0 /\ b[4] = 0 /\ b[5] < 128
  THEN ((b[5] * 256 + b[6]) * 256 + b[7]) * 256 + b[8]
  ELSE 2147483647

\* impl Decode for u64
decode_u64(bytes, pos) ==
  LET avail == Len(bytes) - pos IN
  IF avail = 0 THEN Outcome("EOF", 0, 0, 0, 0)
  ELSE
    LET b0 == bytes[pos + 1] IN
    IF b0 < 253 THEN Outcome("Ok", b0, 1, 1, 0)
    ELSE IF b0 = 253 THEN
      LET nread == Min(2, avail - 1) IN
      IF nread < 2 THEN Outcome("PartialRead", 0, 1 + nread, 1 + nread, nread)
      ELSE Outcome("Ok", 256 * bytes[pos + 2] + bytes[pos + 3], 1 + nread, 1 + nread, 0)
    ELSE IF b0 = 254 THEN
      LET nread == Min(8, avail - 1) IN
      IF nread < 8 THEN Outcome("PartialRead", 0, 1 + nread, 1 + nread, nread)
      ELSE Outcome("Ok", u64_from_be(Slice(bytes, pos + 1, 8)), 1 + nread, 1 + nread, 0)
    ELSE Outcome("Null", 0, 1, 1, 0)

\* mutant: the two bytes are taken as an unsigned 16-bit number
i64_from_i16_unsigned(hi, lo) == I64(256 * hi + lo)

\* (0x100 * (b2[0] as i8 as i16) + b2[1] as i16) as i64
i64_from_i16(hi, lo) == I64(256 * AsI8(hi) + lo)

\* impl Decode for i64
decode_i64(bytes, pos) ==
  LET avail == Len(bytes) - pos IN
  IF avail = 0 THEN Outcome("EOF", <<>>, 0, 0, 0)
  ELSE
    LET b0 == bytes[pos + 1] IN
    IF AsI8(b0) > -127 THEN Outcome("Ok", I64(AsI8(b0)), 1, 1, 0)
    ELSE IF b0 = 129 THEN
      LET nread == Min(2, avail - 1) IN
      IF nread < 2 THEN Outcome("PartialRead", <<>>, 1 + nread, 1 + nread, nread)
      ELSE Outcome("Ok", i64_from_i16(bytes[pos + 2], bytes[pos + 3]), 1 + nread, 1 + nread, 0)
    ELSE
      LET nread == Min(8, avail - 1) IN
      IF nread < 8 THEN Outcome("PartialRead", <<>>, 1 + nread, 1 + nread, nread)
      ELSE Outcome("Ok", Slice(bytes, pos + 1, 8), 1 + nread, 1 + nread, 0)

\* vec![0u8; n] panics with "capacity overflow" when n is above isize::MAX:
\* the length is the 9-byte form with the top bit of its first byte set
capacity_overflow(bytes, pos) == bytes[pos + 1] = 254 /\ bytes[pos + 2] >= 128

\* mutant: a short payload is not added to stats.read
payload_read_dropped(nr, n) == IF nr = n THEN nr ELSE 0

\* stats.read += nr after the read of the payload
payload_read(nr, n) == nr

\* impl Decode for Vec<u8>, lines 145-157: the payload, once the length has
\* been decoded with the outcome len
decode_payload(bytes, pos, len) ==
  IF len.res # "Ok" THEN Outcome(len.res, <<>>, len.pulled, len.nread, len.disc)
  ELSE IF capacity_overflow(bytes, pos) THEN Outcome("Panic", <<>>, len.pulled, len.nread, 0)
  ELSE
    LET n  == len.val
        nr == Min(n, Len(bytes) - pos - len.pulled)
        rd == len.nread + payload_read(nr, n)
    IN  IF nr = n THEN Outcome("Ok", Slice(bytes, pos + len.pulled, n), len.pulled + nr, rd, 0)
        ELSE Outcome("PartialRead", <<>>, len.pulled + nr, rd, rd)

\* impl Decode for Vec<u8>
decode_bytes(bytes, pos) == decode_payload(bytes, pos, decode_u64(bytes, pos))

\* --------------------------------------------------------------- BTreeMap
\* mutant: an entry that is there already keeps its value
btree_insert_keep(m, k, v) == [x \in DOMAIN m \cup {k} |-> IF x \in DOMAIN m THEN m[x] ELSE v]

\* mutant: removing a key empties the map
btree_remove_all(m, k) == <<>>

\* BTreeMap::insert / remove / get on a map kept as a function from keys
btree_insert(m, k, v) == [x \in DOMAIN m \cup {k} |-> IF x = k THEN v ELSE m[x]]

btree_remove(m, k) == [x \in DOMAIN m \ {k} |-> m[x]]

\* Option: None is the empty sequence, Some(x) the one-element sequence
None == <<>>

Some(x) == << x >>

btree_get(m, k) == IF k \in DOMAIN m THEN Some(m[k]) ELSE None

\* mutant: the pairs come in descending key order
btree_iter_rev(m) ==
  LET ks == SortedKeys(DOMAIN m) IN
  [i \in 1..Len(ks) |-> << ks[Len(ks) + 1 - i], m[ks[Len(ks) + 1 - i]] >>]

\* the (key, value) pairs of m in ascending key order
btree_iter(m) ==
  LET ks == SortedKeys(DOMAIN m) IN [i \in 1..Len(ks) |-> << ks[i], m[ks[i]] >>]

\* ------------------------------------------------------- DataMap decoding
\* DecodeStats
Stats(read, discarded) == [read |-> read, discarded |-> discarded]

\* mutant: the key of the replaced record is not counted
redundant_size_nokey(old, keysize) ==
  IF old = None THEN 0 ELSE encode_size_bytes(old[1])

\* the bytes a replaced or removed record wasted: its key and its value
redundant_size(old, keysize) ==
  IF old = None THEN 0 ELSE keysize + encode_size_bytes(old[1])

\* mutant: a tombstone is not counted as wasted
tombstone_size_zero(keysize) == 0

\* mutant: the 0xFF of the tombstone is not counted
tombstone_size_nobyte(keysize) == keysize

\* the bytes a tombstone wastes: its key and the 0xFF
tombstone_size(keysize) == keysize + 1

\* One iteration of the loop of impl Decode for DataMap, reading at offset
\* pos with the map built so far and the statistics so far.  res is "more"
\* when the loop goes round again, "Ok" when it returns Ok(data), and the
\* DecodeError when it returns Err.
decode_map_step(bytes, pos, data, stats) ==
  LET key == decode_i64(bytes, pos)
      s1  == Stats(stats.read + key.nread, stats.discarded + key.disc)
  IN
  IF key.res = "EOF" THEN [res |-> "Ok", pos |-> pos, data |-> data, stats |-> s1]
  ELSE IF key.res # "Ok"
  THEN [res |-> key.res, pos |-> pos + key.pulled, data |-> data, stats |-> s1]
  ELSE
    LET keysize == s1.read - stats.read
        value   == decode_bytes(bytes, pos + key.pulled)
        s2      == Stats(s1.read + value.nread, s1.discarded + value.disc)
        p2      == pos + key.pulled + value.pulled
        old     == btree_get(data, key.val)
        redundant == redundant_size(old, keysize)
    IN
    IF value.res = "Null"
    THEN [res |-> "more", pos |-> p2, data |-> btree_remove(data, key.val),
          stats |-> Stats(s2.read, s2.discarded + tombstone_size(keysize) + redundant)]
    ELSE IF value.res # "Ok"
    THEN [res |-> value.res, pos |-> p2, data |-> data, stats |-> s2]
    ELSE [res |-> "more", pos |-> p2, data |-> btree_insert(data, key.val, value.val),
          stats |-> Stats(s2.read, s2.discarded + redundant)]

\* impl Decode for DataMap, run to its end from the start of bytes
RECURSIVE decode_map_from(_, _, _, _)
decode_map_from(bytes, pos, data, stats) ==
  LET st == decode_map_step(bytes, pos, data, stats)
  IN  IF st.res = "more" THEN decode_map_from(bytes, st.pos, st.data, st.stats) ELSE st

decode_map(bytes) == decode_map_from(bytes, 0, <<>>, Stats(0, 0))

\* ------------------------------------------------------------------ inputs
\* keys with a 3-byte, a 1-byte and a 9-byte encoding
Keys == { I64(-127), I64(5), I64(32768) }

Tom == << 84, 111, 109 >>

Harry == << 72, 97, 114, 114, 121 >>

\* the shortest value whose length takes the 3-byte u64 form
Long == Rep(128, 253)

Values == { <<>>, Tom, Harry, Long }

\* the path the program keeps its table at (open, open_rw)
Home == "p"

\* the paths compact is called with
Paths == { "p", "q" }

\* mutant: compact writes the file at path itself
TmpPathSame(path) == path

\* path + "~", the temporary file of compact
TmpPath(path) == IF path = "p" THEN "p~" ELSE "q~"

\* ------------------------------------------------------------------- state
VARIABLES
  files,    \* the file system: a function from the paths that exist to their bytes
  file,     \* Table.file: None, or Some(handle) with the handle's path, offset and mode
  map,      \* Table.map
  pc,       \* where the program is: "none" (no Table), "load", "idle", "compact_*",
            \* "panic" (the thread has panicked)
  ld,       \* the load in progress: path, mode, reader offset, map and stats so far
  stats,    \* the DecodeStats printed by the open / open_rw that built the Table
  cp,       \* the last compact: its path, and the bytes at path and at path~
            \* and the last returned call when it was called
  ret,      \* the last call that returned: operation, arguments, result
  nops,     \* Table method calls made
  nfaults,  \* I/O failures injected
  limit,    \* Table method calls the run may make
  codec,    \* the codec exercised on its own: a Vec<u8> written by encode calls
            \* and an io::Cursor over it read by decode calls
  call,     \* the last call of a pure function made on its own: the function,
            \* its arguments and what it returned
  reader,   \* the SimpleReader of one connection of the server: whether the
            \* reactor holds it ("none", "open", "removed"), the bytes its stream
            \* has still to deliver, its buffer and state, and the actions
            \* returned and the lines printed by its last run; all the bytes
            \* its peer sends and the texts delivered since it was accepted
  reactor   \* the EpollReactor: where its run is ("new" before the call,
            \* "wait", "events", "scheduler", "todos", "returned"), the
            \* descriptors of its readers, its run flag, the events of the
            \* iteration, its todo, and whether epoll_wait has failed

\* the Table and its files
tvars == << files, file, map, pc, ld, stats, cp, ret, nops, nfaults, limit >>

vars == << files, file, map, pc, ld, stats, cp, ret, nops, nfaults, limit, codec, call, reader, reactor >>

\* ------------------------------------------------------------------ results
Ok(out) == [tag |-> "Ok", err |-> "", kind |-> "", out |-> out]

Err(err) == [tag |-> "Err", err |-> err, kind |-> "", out |-> <<>>]

\* TableError::DecodeError(kind)
ErrDecode(kind) == [tag |-> "Err", err |-> "DecodeError", kind |-> kind, out |-> <<>>]

\* the call did not return: the thread panicked in it
Panic == [tag |-> "Panic", err |-> "capacity overflow", kind |-> "", out |-> <<>>]

\* a returned call; key and value are options, path is "" when there is none
Ret(op, key, value, path, val) ==
  [op |-> op, key |-> key, value |-> value, path |-> path, val |-> val]

NoRet == Ret("", None, None, "", Ok(<<>>))

\* the file at path as an option: None when it does not exist
FileAt(fs, path) == IF path \in DOMAIN fs THEN Some(fs[path]) ELSE None

NoLoad == [path |-> "", rw |-> FALSE, pos |-> 0, data |-> <<>>, stats |-> Stats(0, 0)]

NoCompact ==
  [path |-> "", old |-> None, tmp |-> None, map |-> <<>>, file |-> None, prev |-> NoRet]

\* nothing encoded yet and no reader made
NoCodec ==
  [buf |-> <<>>, items |-> <<>>, src |-> None, pos |-> 0, stats |-> Stats(0, 0), decs |-> <<>>]

\* no pure function called yet
NoCall == [op |-> "none", args |-> <<>>, out |-> <<>>]

\* ReaderState::Begin and ReaderState::ReadSize(n)
Begin == [tag |-> "Begin", n |-> 0]

ReadSize(n) == [tag |-> "ReadSize", n |-> n]

\* EpollReactor::new_with_scheduler: no reader, run: true
NoReactor ==
  [pc |-> "new", readers |-> {}, run |-> TRUE, events |-> <<>>, todo |-> <<>>, failed |-> FALSE]

\* no connection accepted yet
NoReader ==
  [conn |-> "none", stream |-> <<>>, buffer |-> <<>>, state |-> Begin,
   actions |-> <<>>, printed |-> <<>>, sent |-> <<>>, got |-> <<>>]

\* -------------------------------------------------------------- file system
Exists(fs, path) == path \in DOMAIN fs

\* create or replace the file at path
fs_put(fs, path, bytes) ==
  [x \in DOMAIN fs \cup {path} |-> IF x = path THEN bytes ELSE fs[x]]

\* mutant: the bytes of from are added to the end of to instead of replacing it
fs_rename_append(fs, from, to) ==
  [x \in (DOMAIN fs \cup {to}) \ {from} |->
     IF x = to THEN (IF to \in DOMAIN fs THEN fs[to] ELSE <<>>) \o fs[from] ELSE fs[x]]

\* rename(from, to): to is replaced, from no longer exists
fs_rename(fs, from, to) ==
  [x \in (DOMAIN fs \cup {to}) \ {from} |-> IF x = to THEN fs[from] ELSE fs[x]]

\* a file handle: the path of the file it is open on, its offset, O_APPEND
Handle(path, pos, append) == [path |-> path, pos |-> pos, append |-> append]

\* write(2) of data through handle h: at the end in append mode, else at the offset
fs_write(fs, h, data) ==
  LET cur == fs[h.path]
      at  == IF h.append THEN Len(cur) ELSE h.pos
  IN  fs_put(fs, h.path,
             SubSeq(cur, 1, at) \o data \o SubSeq(cur, at + Len(data) + 1, Len(cur)))

\* mutant: the offset of the handle does not move
h_advance_stuck(fs, h, data) == h

\* the handle after that write
h_advance(fs, h, data) ==
  Handle(h.path, (IF h.append THEN Len(fs[h.path]) ELSE h.pos) + Len(data), h.append)

\* A run of write_all calls, one per buffer of chunks, that stops at a failing
\* call: the bytes that reached the file.  The failing write_all has written
\* a proper prefix of its buffer; write_all of an empty buffer makes no write
\* and cannot fail.
WriteFailures(chunks) ==
  { Concat(SubSeq(chunks, 1, ij[1] - 1)) \o SubSeq(chunks[ij[1]], 1, ij[2]) :
      ij \in { x \in (1..Len(chunks)) \X (0..MaxPartial) : x[2] < Len(chunks[x[1]]) } }

\* -------------------------------------------------------------------- Init
\* no Table yet, the directory holding the files fs
StartWith(fs, ops) ==
  /\ files = fs
  /\ file = None
  /\ map = <<>>
  /\ pc = "none"
  /\ ld = NoLoad
  /\ stats = Stats(0, 0)
  /\ cp = NoCompact
  /\ ret = NoRet
  /\ nops = 0
  /\ nfaults = 0
  /\ limit = ops
  /\ codec = NoCodec
  /\ call = NoCall
  /\ reader = NoReader
  /\ reactor = NoReactor

\* an empty directory and no Table
Start(ops) == StartWith(<<>>, ops)

Init == Start(MaxOps)

FaultInit == Start(MaxFaultOps)

\* an injected I/O failure
Fault == nfaults < MaxFaults /\ nfaults' = nfaults + 1

\* a Table method is called
Call == pc = "idle" /\ nops < limit /\ nops' = nops + 1

\* ------------------------------------------------------------ open, open_rw
StartLoad(path, rw) ==
  /\ pc' = "load"
  /\ ld' = [path |-> path, rw |-> rw, pos |-> 0, data |-> <<>>, stats |-> Stats(0, 0)]

\* Table::open up to the call of decode_stats: File::open(path)
Open(path) ==
  /\ pc = "none"
  /\ IF Exists(files, path)
     THEN StartLoad(path, FALSE) /\ UNCHANGED ret
     ELSE ret' = Ret("open", None, None, path, Err("IOError")) /\ UNCHANGED << pc, ld >>
  /\ UNCHANGED << files, file, map, stats, cp, nops, nfaults, limit, codec, call, reader, reactor >>

\* File::open fails on a file that exists
OpenFails(path) ==
  /\ pc = "none"
  /\ Exists(files, path)
  /\ Fault
  /\ ret' = Ret("open", None, None, path, Err("IOError"))
  /\ UNCHANGED << files, file, map, pc, ld, stats, cp, nops, limit, codec, call, reader, reactor >>

\* Table::open_rw up to the call of decode_stats: read, write, create
OpenRw(path) ==
  /\ pc = "none"
  /\ files' = IF Exists(files, path) THEN files ELSE fs_put(files, path, <<>>)
  /\ StartLoad(path, TRUE)
  /\ UNCHANGED << file, map, stats, cp, ret, nops, nfaults, limit, codec, call, reader, reactor >>

OpenRwFails(path) ==
  /\ pc = "none"
  /\ Fault
  /\ ret' = Ret("open_rw", None, None, path, Err("IOError"))
  /\ UNCHANGED << files, file, map, pc, ld, stats, cp, nops, limit, codec, call, reader, reactor >>

LoadOp == IF ld.rw THEN "open_rw" ELSE "open"

\* mutant: open_rw does not keep the handle either
opened_file_none(rw, path, pos) == None

\* mutant: open keeps the handle it read the file through
opened_file_kept(rw, path, pos) == Some(Handle(path, pos, FALSE))

\* Table.file as open (None) and open_rw (the handle the file was read through) set it
opened_file(rw, path, pos) == IF rw THEN Some(Handle(path, pos, FALSE)) ELSE None

\* one iteration of DataMap::decode_stats inside open / open_rw, and the
\* rest of open / open_rw when the decoder returns
LoadStep ==
  /\ pc = "load"
  /\ LET st == decode_map_step(files[ld.path], ld.pos, ld.data, ld.stats) IN
     IF st.res = "more"
     THEN /\ ld' = [ld EXCEPT !.pos = st.pos, !.data = st.data, !.stats = st.stats]
          /\ UNCHANGED << file, map, pc, stats, ret >>
     ELSE IF st.res = "Ok"
     THEN /\ file' = opened_file(ld.rw, ld.path, st.pos)
          /\ map' = st.data
          /\ stats' = st.stats
          /\ pc' = "idle"
          /\ ld' = NoLoad
          /\ ret' = Ret(LoadOp, None, None, ld.path, Ok(<<>>))
     ELSE IF st.res = "Panic"
     THEN /\ pc' = "panic"
          /\ ld' = NoLoad
          /\ ret' = Ret(LoadOp, None, None, ld.path, Panic)
          /\ UNCHANGED << file, map, stats >>
     ELSE /\ pc' = "none"
          /\ ld' = NoLoad
          /\ ret' = Ret(LoadOp, None, None, ld.path, ErrDecode(st.res))
          /\ UNCHANGED << file, map, stats >>
  /\ UNCHANGED << files, cp, nops, nfaults, limit, codec, call, reader, reactor >>

\* a read of the file fails during the load: DecodeError::IOError
LoadIOError ==
  /\ pc = "load"
  /\ Fault
  /\ pc' = "none"
  /\ ld' = NoLoad
  /\ ret' = Ret(LoadOp, None, None, ld.path, ErrDecode("IOError"))
  /\ UNCHANGED << files, file, map, stats, cp, nops, limit, codec, call, reader, reactor >>

\* the owner releases the Table
Drop ==
  /\ pc = "idle"
  /\ pc' = "none"
  /\ file' = None
  /\ map' = <<>>
  /\ stats' = Stats(0, 0)
  /\ cp' = NoCompact
  /\ ret' = Ret("drop", None, None, "", Ok(<<>>))
  /\ UNCHANGED << files, ld, nops, nfaults, limit, codec, call, reader, reactor >>

\* ------------------------------------------------------- get and iteration
\* Table::get
Get(k) ==
  /\ Call
  /\ ret' = Ret("get", Some(k), None, "", Ok(btree_get(map, k)))
  /\ UNCHANGED << files, file, map, pc, ld, stats, cp, nfaults, limit, codec, call, reader, reactor >>

\* IntoIterator for &Table, run to its end
Iter ==
  /\ Call
  /\ ret' = Ret("iter", None, None, "", Ok(btree_iter(map)))
  /\ UNCHANGED << files, file, map, pc, ld, stats, cp, nfaults, limit, codec, call, reader, reactor >>

\* IntoIterator for Table, run to its end: the Table is moved into the
\* iterator, so its file handle is closed and no Table is left
IntoIter ==
  /\ Call
  /\ ret' = Ret("into_iter", None, None, "", Ok(btree_iter(map)))
  /\ pc' = "none"
  /\ file' = None
  /\ map' = <<>>
  /\ stats' = Stats(0, 0)
  /\ cp' = NoCompact
  /\ UNCHANGED << files, ld, nfaults, limit, codec, call, reader, reactor >>

\* ----------------------------------------------------------- insert, remove
\* the early return of insert, remove and compact when self.file is None
NotWritable(op, key, value, path) ==
  /\ ret' = Ret(op, key, value, path, Err("NotWritable"))
  /\ UNCHANGED << files, file, map >>

\* the buffers insert and remove hand to write_all, in order
insert_writes(k, v) == << encode_i64(k) >> \o encode_bytes_writes(v)

\* mutant: the deletion is written as an empty value instead of Null
remove_writes_empty(k) == << encode_i64(k), << 0 >> >>

remove_writes(k) == << encode_i64(k), encode_none >>

\* bytes written through the Table's handle
WriteLog(bytes) ==
  /\ files' = fs_write(files, file[1], bytes)
  /\ file' = Some(h_advance(files, file[1], bytes))

\* Table::insert
Insert(k, v) ==
  /\ Call
  /\ IF file = None
     THEN NotWritable("insert", Some(k), Some(v), "")
     ELSE /\ WriteLog(Concat(insert_writes(k, v)))
          /\ map' = btree_insert(map, k, v)
          /\ ret' = Ret("insert", Some(k), Some(v), "", Ok(btree_get(map, k)))
  /\ UNCHANGED << pc, ld, stats, cp, nfaults, limit, codec, call, reader, reactor >>

\* Table::insert when a write_all fails
InsertFails(k, v) ==
  /\ Call
  /\ file # None
  /\ Fault
  /\ \E written \in WriteFailures(insert_writes(k, v)) : WriteLog(written)
  /\ ret' = Ret("insert", Some(k), Some(v), "", Err("IOError"))
  /\ UNCHANGED << map, pc, ld, stats, cp, limit, codec, call, reader, reactor >>

\* Table::remove
Remove(k) ==
  /\ Call
  /\ IF file = None
     THEN NotWritable("remove", Some(k), None, "")
     ELSE /\ WriteLog(Concat(remove_writes(k)))
          /\ map' = btree_remove(map, k)
          /\ ret' = Ret("remove", Some(k), None, "", Ok(btree_get(map, k)))
  /\ UNCHANGED << pc, ld, stats, cp, nfaults, limit, codec, call, reader, reactor >>

\* Table::remove when a write_all fails
RemoveFails(k) ==
  /\ Call
  /\ file # None
  /\ Fault
  /\ \E written \in WriteFailures(remove_writes(k)) : WriteLog(written)
  /\ ret' = Ret("remove", Some(k), None, "", Err("IOError"))
  /\ UNCHANGED << map, pc, ld, stats, cp, limit, codec, call, reader, reactor >>

\* ------------------------------------------------------------------ compact
\* Table::compact, lines 56-60: the writability check, then self.file = None
Compact(path) ==
  /\ Call
  /\ IF file = None
     THEN /\ NotWritable("compact", None, None, path)
          /\ UNCHANGED << pc, cp >>
     ELSE /\ file' = None
          /\ pc' = "compact_create"
          /\ cp' = [path |-> path, old |-> FileAt(files, path),
                    tmp |-> FileAt(files, TmpPath(path)), map |-> map,
                    file |-> file, prev |-> ret]
          /\ UNCHANGED << files, map, ret >>
  /\ UNCHANGED << ld, stats, nfaults, limit, codec, call, reader, reactor >>

\* mutant: a failing compact puts the handle back
CompactFailsKept(at) ==
  /\ pc = at
  /\ Fault
  /\ pc' = "idle"
  /\ file' = cp.file
  /\ ret' = Ret("compact", None, None, cp.path, Err("IOError"))
  /\ UNCHANGED << map, ld, stats, cp, nops, limit, codec, call, reader, reactor >>

\* compact returns Err(IOError) from step at; self.file stays None
CompactFails(at) ==
  /\ pc = at
  /\ Fault
  /\ pc' = "idle"
  /\ ret' = Ret("compact", None, None, cp.path, Err("IOError"))
  /\ UNCHANGED << file, map, ld, stats, cp, nops, limit, codec, call, reader, reactor >>

\* mutant: a step of compact empties the index
CompactStepDrops(at, next) ==
  /\ pc = at
  /\ pc' = next
  /\ map' = <<>>
  /\ UNCHANGED << ld, stats, cp, nops, nfaults, limit, codec, call, reader, reactor >>

\* a step of compact that succeeds: the index is not touched
CompactStep(at, next) ==
  /\ pc = at
  /\ pc' = next
  /\ UNCHANGED << map, ld, stats, cp, nops, nfaults, limit, codec, call, reader, reactor >>

\* mutant: path~ is opened without truncate
CompactCreateKeeps ==
  /\ CompactStep("compact_create", "compact_write")
  /\ files' = IF Exists(files, TmpPath(cp.path)) THEN files
              ELSE fs_put(files, TmpPath(cp.path), <<>>)
  /\ UNCHANGED << file, ret >>

\* lines 62-70: open path~ with write, create, truncate
CompactCreate ==
  /\ CompactStep("compact_create", "compact_write")
  /\ files' = fs_put(files, TmpPath(cp.path), <<>>)
  /\ UNCHANGED << file, ret >>

CompactCreateFails == CompactFails("compact_create") /\ UNCHANGED files

\* lines 72-81: self.map.encode(&mut f), then drop(f)
CompactWrite ==
  /\ CompactStep("compact_write", "compact_rename")
  /\ files' = fs_write(files, Handle(TmpPath(cp.path), 0, FALSE), encode_map(map))
  /\ UNCHANGED << file, ret >>

CompactWriteFails ==
  /\ CompactFails("compact_write")
  /\ \E written \in WriteFailures(encode_map_writes(map)) :
       files' = fs_write(files, Handle(TmpPath(cp.path), 0, FALSE), written)

\* lines 83-87: rename(path~, path)
CompactRename ==
  /\ CompactStep("compact_rename", "compact_reopen")
  /\ files' = fs_rename(files, TmpPath(cp.path), cp.path)
  /\ UNCHANGED << file, ret >>

CompactRenameFails == CompactFails("compact_rename") /\ UNCHANGED files

\* mutant: the reopened handle is not reinstalled
CompactReopenLost ==
  /\ CompactStep("compact_reopen", "idle")
  /\ ret' = Ret("compact", None, None, cp.path, Ok(<<>>))
  /\ UNCHANGED << files, file >>

\* lines 89-96: reopen path in append mode and reinstall the handle
CompactReopen ==
  /\ CompactStep("compact_reopen", "idle")
  /\ file' = Some(Handle(cp.path, 0, TRUE))
  /\ ret' = Ret("compact", None, None, cp.path, Ok(<<>>))
  /\ UNCHANGED files

CompactReopenFails == CompactFails("compact_reopen") /\ UNCHANGED files

\* -------------------------------------------------------------------- Next
\* the program when no I/O call fails
Next ==
  \/ Open(Home)
  \/ OpenRw(Home)
  \/ LoadStep
  \/ Drop
  \/ \E k \in Keys : Get(k)
  \/ Iter
  \/ IntoIter
  \/ \E k \in Keys, v \in Values : Insert(k, v)
  \/ \E k \in Keys : Remove(k)
  \/ \E path \in Paths : Compact(path)
  \/ CompactCreate
  \/ CompactWrite
  \/ CompactRename
  \/ CompactReopen

\* the I/O failures
Failure ==
  \/ OpenFails(Home)
  \/ OpenRwFails(Home)
  \/ LoadIOError
  \/ \E k \in Keys, v \in Values : InsertFails(k, v)
  \/ \E k \in Keys : RemoveFails(k)
  \/ CompactCreateFails
  \/ CompactWriteFails
  \/ CompactRenameFails
  \/ CompactReopenFails

FaultNext == Next \/ Failure

Spec == Init /\ [][Next]_vars

FaultSpec == FaultInit /\ [][FaultNext]_vars

\* ------------------------------------------------- loading a file as found
\* Fragments of log files: whole keys, keys cut short, whole values, values
\* cut short, the tombstone byte, and value lengths in the 3-byte and 9-byte
\* forms, one of them above isize::MAX.
LogPieces ==
  { << 5 >>, << 129, 255, 129 >>, << 128 >> \o I64(32768),
    << 129 >>, << 128, 0 >>,
    << 0 >>, << 3 >> \o Tom, << 3, 84 >>, << 255 >>,
    << 253 >>, << 253, 0, 2, 7, 7 >>,
    << 254, 0, 0 >>, << 254, 0, 0, 0, 0, 0, 0, 0, 1, 9 >>,
    << 254, 0, 0, 0, 0, 0, 1, 0, 0 >>,
    << 254, 255, 255, 255, 255, 255, 255, 255, 255 >> }

\* the file at Home was left by some earlier program: any MaxPieces fragments
LoadInit ==
  \E n \in 0..MaxPieces : \E ps \in [1..n -> LogPieces] :
    StartWith(fs_put(<<>>, Home, Concat(ps)), 0)

\* the program opens the table, read-only or read-write, and releases it
LoadNext ==
  \/ Open(Home)
  \/ OpenRw(Home)
  \/ LoadStep
  \/ Drop

LoadSpec == LoadInit /\ [][LoadNext]_vars

\* --------------------------------------- compacting over a leftover path~
\* logs written by earlier runs of the program
LeftLogs ==
  { <<>>,
    encode_i64(I64(5)) \o encode_bytes(Tom),
    encode_i64(I64(5)) \o encode_bytes(Tom) \o encode_i64(I64(5)) \o encode_none,
    encode_i64(I64(32768)) \o encode_bytes(Harry) \o encode_i64(I64(-127)) \o encode_bytes(<<>>) }

\* what a compact that failed, or anything else, has left at a path~: no
\* file, an empty file, the start of a record, and bytes longer than any
\* compacted log of the model
Leftovers == { None, Some(<<>>), Some(<< 5, 3, 84 >>), Some(Rep(7, MaxLeft)) }

\* the directory with the log at Home and the leftovers at p~ and q~
LeftFiles(log, lp, lq) ==
  [x \in { Home } \cup (IF lp = None THEN {} ELSE { "p~" }) \cup (IF lq = None THEN {} ELSE { "q~" }) |->
     IF x = Home THEN log ELSE IF x = "p~" THEN lp[1] ELSE lq[1]]

TmpInit ==
  \E log \in LeftLogs : \E lp \in Leftovers : \E lq \in Leftovers :
    StartWith(LeftFiles(log, lp, lq), MaxTmpOps)

\* the program opens the table read-write and compacts it
TmpNext ==
  \/ OpenRw(Home)
  \/ LoadStep
  \/ \E path \in Paths : Compact(path)
  \/ CompactCreate
  \/ CompactWrite
  \/ CompactRename
  \/ CompactReopen

TmpSpec == TmpInit /\ [][TmpNext]_vars

\* ------------------------------------------------------ the codec on its own
\* Values are encoded one after the other into a Vec<u8> (encode), a Cursor is
\* made over the buffer or over its first bytes, and decoders are called on
\* the Cursor with one DecodeStats.
U64s == { 0, 252, 253, 65535, 65536, 123456789 }

\* i64::MIN
MinI64 == << 128, 0, 0, 0, 0, 0, 0, 0 >>

I64s ==
  { I64(0), I64(-1), I64(127), I64(128), I64(-126), I64(-127), I64(-128), I64(-320),
    I64(32767), I64(-32768), I64(32768), I64(-32769), MinI64 }

ByteStrs == { <<>>, Tom, Long }

Opts == { None, Some(253) }

\* maps, each given by the inserts that build it
MapInputs ==
  { <<>>,
    << << I64(5), Tom >> >>,
    << << I64(32768), Harry >>, << I64(-127), <<>> >>, << I64(32768), Long >> >> }

\* the BTreeMap built by inserting the pairs of ps in order
RECURSIVE MapOf(_)
MapOf(ps) ==
  IF ps = <<>> THEN <<>>
  ELSE btree_insert(MapOf(SubSeq(ps, 1, Len(ps) - 1)), ps[Len(ps)][1], ps[Len(ps)][2])

\* x.encode(&mut buf) wrote bytes, and x.encode_size() returned size
Encode(ty, val, bytes, size) ==
  /\ codec.src = None
  /\ Len(codec.items) < MaxItems
  /\ codec' = [codec EXCEPT
       !.buf = @ \o bytes,
       !.items = Append(@, [ty |-> ty, val |-> val, size |-> size,
                            from |-> Len(codec.buf), to |-> Len(codec.buf) + Len(bytes)])]
  /\ UNCHANGED << tvars, call, reader, reactor >>

EncodeU64 == \E n \in U64s : Encode("u64", << n >>, encode_u64(n), encode_size_u64(n))

EncodeI64 == \E k \in I64s : Encode("i64", k, encode_i64(k), encode_size_i64(k))

EncodeOpt == \E o \in Opts : Encode("opt", o, encode_opt(o), encode_size_opt(o))

EncodeBytes == \E v \in ByteStrs : Encode("bytes", v, encode_bytes(v), encode_size_bytes(v))

EncodeMap ==
  \E ps \in MapInputs : Encode("map", ps, encode_map(MapOf(ps)), encode_size_map(MapOf(ps)))

\* the lengths of the part of a buffer of len bytes a reader is made over
CutPoints(len) == { n \in 0..len : n <= MaxCut \/ len - n <= MaxCut }

\* io::Cursor::new over the first n bytes of the buffer
Cursor(n) ==
  /\ codec.src = None
  /\ codec' = [codec EXCEPT !.src = Some(SubSeq(codec.buf, 1, n))]
  /\ UNCHANGED << tvars, call, reader, reactor >>

\* the decoder that reads a value of type ty (an Option<u64> is read as u64)
DecoderOf(ty) == IF ty = "opt" THEN "u64" ELSE ty

\* T::decode_stats(&mut src, &mut stats) returned the outcome o; the values
\* are decoded in the order they were encoded, each by the decoder of its
\* type, and one more decode call of any type follows
Decode(ty, o) ==
  /\ codec.src # None
  /\ Len(codec.decs) <= Len(codec.items)
  /\ Len(codec.decs) < Len(codec.items) => ty = DecoderOf(codec.items[Len(codec.decs) + 1].ty)
  /\ codec' = [codec EXCEPT
       !.pos = @ + o.pulled,
       !.stats = Stats(@.read + o.nread, @.discarded + o.disc),
       !.decs = Append(@, [ty |-> ty, res |-> o.res,
                           val |-> IF ty = "u64" THEN << o.val >> ELSE o.val,
                           at |-> codec.pos, pulled |-> o.pulled, read |-> o.nread])]
  /\ UNCHANGED << tvars, call, reader, reactor >>

DecodeU64 == codec.src # None /\ Decode("u64", decode_u64(codec.src[1], codec.pos))

DecodeI64 == codec.src # None /\ Decode("i64", decode_i64(codec.src[1], codec.pos))

DecodeBytes == codec.src # None /\ Decode("bytes", decode_bytes(codec.src[1], codec.pos))

\* the outcome of DataMap::decode_stats that started at offset pos0 with the
\* statistics stats0 and ended as st
MapOutcome(st, pos0, stats0) ==
  Outcome(st.res, st.data, st.pos - pos0, st.stats.read - stats0.read,
          st.stats.discarded - stats0.discarded)

DecodeMap ==
  /\ codec.src # None
  /\ Decode("map", MapOutcome(decode_map_from(codec.src[1], codec.pos, <<>>, codec.stats),
                              codec.pos, codec.stats))

CodecInit == StartWith(<<>>, 0)

CodecNext ==
  \/ EncodeU64
  \/ EncodeI64
  \/ EncodeOpt
  \/ EncodeBytes
  \/ EncodeMap
  \/ \E n \in CutPoints(Len(codec.buf)) : Cursor(n)
  \/ DecodeU64
  \/ DecodeI64
  \/ DecodeBytes
  \/ DecodeMap

CodecSpec == CodecInit /\ [][CodecNext]_vars

\* ------------------------------------------------------- i64 and f64 values
\* b + 1 on a big-endian byte string, wrapping
RECURSIVE AddOne(_)
AddOne(b) ==
  IF b = <<>> THEN <<>>
  ELSE IF b[Len(b)] < 255 THEN SubSeq(b, 1, Len(b) - 1) \o << b[Len(b)] + 1 >>
  ELSE AddOne(SubSeq(b, 1, Len(b) - 1)) \o << 0 >>

\* -n for an i64 (wrapping, as the two's complement does)
i64_neg(n) == AddOne([i \in 1..8 |-> 255 - n[i]])

\* |n| as an unsigned 64-bit number
i64_magnitude(n) == IF n[1] >= 128 THEN i64_neg(n) ELSE n

\* Ord::cmp for i64
i64_cmp(a, b) == IF I64Less(a, b) THEN "Less" ELSE IF a = b THEN "Equal" ELSE "Greater"

\* the i64 2^k (0 <= k <= 62), and sums of i64 with no bit in common
I64Pow2(k) == [i \in 1..8 |-> IF i = 8 - (k \div 8) THEN 2 ^ (k % 8) ELSE 0]

BitOr(a, b) == [i \in 1..Len(a) |-> a[i] + b[i]]

MaxI64 == << 127, 255, 255, 255, 255, 255, 255, 255 >>

\* An f64 is NaN, an infinity, or a finite number kept exactly: its sign and
\* its magnitude in 1/256ths as 11 bytes big-endian (ten bytes of integer
\* part, one byte of fraction).  The f64 of the model are those whose magnitude
\* is below 2^80 and a multiple of 1/256 (with at most 53 significant bits);
\* -0.0 and +0.0 are different values.
FixLen == 11

F64(neg, mag) == [kind |-> "fin", neg |-> neg, mag |-> mag]

NaN == [kind |-> "nan", neg |-> FALSE, mag |-> Rep(0, FixLen)]

Infinite(neg) == [kind |-> "inf", neg |-> neg, mag |-> Rep(0, FixLen)]

\* the magnitude of 2^k (-8 <= k <= 79), and of an unsigned 64-bit integer
MagPow2(k) == [i \in 1..FixLen |-> IF i = FixLen - ((k + 8) \div 8) THEN 2 ^ ((k + 8) % 8) ELSE 0]

MagOfU64(m) == << 0, 0 >> \o m \o << 0 >>

is_nan(x) == x.kind = "nan"

f64_abs(x) == [x EXCEPT !.neg = FALSE]

f64_neg(x) == [x EXCEPT !.neg = ~x.neg]

\* the magnitude with the infinities above every finite one
ExtMag(x) == (IF x.kind = "inf" THEN << 1 >> ELSE << 0 >>) \o x.mag

IsZero(x) == x.kind = "fin" /\ x.mag = Rep(0, FixLen)

\* x < y for f64: false when either is NaN, and -0.0 is not below +0.0
f64_lt(x, y) ==
  /\ ~is_nan(x) /\ ~is_nan(y)
  /\ IF x.neg /\ y.neg THEN LexLess(ExtMag(y), ExtMag(x))
     ELSE IF ~x.neg /\ ~y.neg THEN LexLess(ExtMag(x), ExtMag(y))
     ELSE x.neg /\ ~(IsZero(x) /\ IsZero(y))

\* x == y for f64
f64_eq(x, y) ==
  /\ ~is_nan(x) /\ ~is_nan(y)
  /\ (IsZero(x) /\ IsZero(y)) \/ (x.neg = y.neg /\ ExtMag(x) = ExtMag(y))

\* x >= y for f64
f64_ge(x, y) == f64_lt(y, x) \/ f64_eq(x, y)

\* PartialOrd::partial_cmp for f64
partial_cmp(x, y) ==
  IF is_nan(x) \/ is_nan(y) THEN None
  ELSE IF f64_lt(x, y) THEN Some("Less")
  ELSE IF f64_eq(x, y) THEN Some("Equal")
  ELSE Some("Greater")

\* Option::unwrap
unwrap(o) == IF o = None THEN "panic" ELSE o[1]

\* the bits of a byte string, most significant first, and back
BitsOf(b) == [i \in 1..(8 * Len(b)) |-> (b[((i - 1) \div 8) + 1] \div (2 ^ (7 - ((i - 1) % 8)))) % 2]

BytesOf(bits) ==
  [j \in 1..(Len(bits) \div 8) |->
     128 * bits[8 * j - 7] + 64 * bits[8 * j - 6] + 32 * bits[8 * j - 5] + 16 * bits[8 * j - 4]
     + 8 * bits[8 * j - 3] + 4 * bits[8 * j - 2] + 2 * bits[8 * j - 1] + bits[8 * j]]

\* the index of the leading 1 bit (past the end when there is none)
LeadingOne(bits) ==
  IF \A i \in 1..Len(bits) : bits[i] = 0 THEN Len(bits) + 1
  ELSE CHOOSE i \in 1..Len(bits) : bits[i] = 1 /\ \A j \in 1..(i - 1) : bits[j] = 0

\* bits + 2^(Len(bits) - last): the carry runs up to the nearest 0 bit
AddBit(bits, last) ==
  LET z == CHOOSE i \in 1..last : bits[i] = 0 /\ \A j \in (i + 1)..last : bits[j] = 1
  IN  [i \in 1..Len(bits) |-> IF i < z THEN bits[i] ELSE IF i = z THEN 1 ELSE 0]

\* bits rounded to the bits up to index last, ties to even
RoundAt(bits, last) ==
  IF last >= Len(bits) THEN bits
  ELSE LET kept == [i \in 1..Len(bits) |-> IF i <= last THEN bits[i] ELSE 0]
           up   == /\ bits[last + 1] = 1
                   /\ bits[last] = 1 \/ \E i \in (last + 2)..Len(bits) : bits[i] = 1
       IN  IF up THEN AddBit(kept, last) ELSE kept

\* n as f64: the nearest f64, which has 53 significant bits
i64_as_f64(n) ==
  F64(n[1] >= 128,
      BytesOf(RoundAt(BitsOf(MagOfU64(i64_magnitude(n))),
                      LeadingOne(BitsOf(MagOfU64(i64_magnitude(n)))) + 52)))

\* x as i64: toward zero, saturating, NaN to 0
f64_as_i64(x) ==
  IF is_nan(x) THEN I64(0)
  ELSE IF f64_ge(x, F64(FALSE, MagPow2(63))) THEN MaxI64
  ELSE IF ~f64_lt(F64(TRUE, MagPow2(63)), x) THEN MinI64
  ELSE IF x.neg THEN i64_neg(SubSeq(x.mag, 3, 10)) ELSE SubSeq(x.mag, 3, 10)

\* -------------------------------------------------------------- cmp_if etc.
\* 1i64 << 53, (53f64).exp2() and (63f64).exp2()
f_resi == I64Pow2(53)

f_resf == F64(FALSE, MagPow2(53))

int_lim == F64(FALSE, MagPow2(63))

\* mutant: every n is converted to f64 and compared there
cmp_if_lossy(n, x) ==
  IF is_nan(x) THEN "Greater"
  ELSE unwrap(partial_cmp(i64_as_f64(n), x))

cmp_if(n, x) ==
  IF is_nan(x) THEN "Greater"
  ELSE IF I64Less(i64_neg(f_resi), n) /\ I64Less(n, f_resi)
       THEN unwrap(partial_cmp(i64_as_f64(n), x))
  ELSE IF f64_lt(f64_abs(x), f_resf)
       THEN (IF I64Less(I64(0), n) THEN "Greater" ELSE "Less")
  ELSE IF f64_ge(x, int_lim) THEN "Less"
  ELSE IF f64_lt(x, f64_neg(int_lim)) THEN "Greater"
  ELSE i64_cmp(n, f64_as_i64(x))

\* mutant: an x of magnitude below 2^53 is below every large n
cmp_fi_unsigned(x, n) ==
  IF is_nan(x) THEN "Less"
  ELSE IF I64Less(i64_neg(f_resi), n) /\ I64Less(n, f_resi)
       THEN unwrap(partial_cmp(x, i64_as_f64(n)))
  ELSE IF f64_lt(f64_abs(x), f_resf) THEN "Less"
  ELSE IF f64_ge(x, int_lim) THEN "Greater"
  ELSE IF f64_lt(x, f64_neg(int_lim)) THEN "Less"
  ELSE i64_cmp(f64_as_i64(x), n)

cmp_fi(x, n) ==
  IF is_nan(x) THEN "Less"
  ELSE IF I64Less(i64_neg(f_resi), n) /\ I64Less(n, f_resi)
       THEN unwrap(partial_cmp(x, i64_as_f64(n)))
  ELSE IF f64_lt(f64_abs(x), f_resf)
       THEN (IF I64Less(I64(0), n) THEN "Less" ELSE "Greater")
  ELSE IF f64_ge(x, int_lim) THEN "Greater"
  ELSE IF f64_lt(x, f64_neg(int_lim)) THEN "Less"
  ELSE i64_cmp(f64_as_i64(x), n)

\* mutant: NaN compares as partial_cmp leaves it, with nothing
cmp_ff_partial(x, y) == unwrap(partial_cmp(x, y))

cmp_ff(x, y) ==
  IF is_nan(x) THEN (IF is_nan(y) THEN "Equal" ELSE "Less")
  ELSE IF is_nan(y) THEN "Greater"
  ELSE unwrap(partial_cmp(x, y))

\* ------------------------------------------- the comparisons on their own
CmpInts ==
  { I64(0), I64(1), I64(-1), I64(3),
    BitOr(I64Pow2(52), I64(1)), i64_neg(BitOr(I64Pow2(52), I64(1))),
    << 0, 31, 255, 255, 255, 255, 255, 255 >>, i64_neg(<< 0, 31, 255, 255, 255, 255, 255, 255 >>),
    I64Pow2(53), i64_neg(I64Pow2(53)),
    BitOr(I64Pow2(53), I64(1)), i64_neg(BitOr(I64Pow2(53), I64(1))),
    I64Pow2(60), I64Pow2(62), i64_neg(I64Pow2(62)),
    << 127, 255, 255, 255, 255, 255, 252, 0 >>, << 127, 255, 255, 255, 255, 255, 252, 1 >>,
    MaxI64, MinI64, AddOne(MinI64) }

\* the magnitudes of 0, 1/2, 1, 3/2, 3, 2^51 + 1/2, 2^52 + 1, 2^53 - 1, 2^53,
\* 2^53 + 2, 2^60, 2^62, 2^63 - 1024, 2^63, 2^63 + 2048, 2^64 and 2^79
CmpMags ==
  { Rep(0, FixLen), MagPow2(-1), MagPow2(0), BitOr(MagPow2(0), MagPow2(-1)),
    BitOr(MagPow2(1), MagPow2(0)), BitOr(MagPow2(51), MagPow2(-1)),
    BitOr(MagPow2(52), MagPow2(0)), MagOfU64(<< 0, 31, 255, 255, 255, 255, 255, 255 >>),
    MagPow2(53), BitOr(MagPow2(53), MagPow2(1)), MagPow2(60), MagPow2(62),
    MagOfU64(<< 127, 255, 255, 255, 255, 255, 252, 0 >>), MagPow2(63),
    BitOr(MagPow2(63), MagPow2(11)), MagPow2(64), MagPow2(79) }

CmpFloats ==
  { NaN, Infinite(FALSE), Infinite(TRUE) } \cup { F64(neg, m) : neg \in BOOLEAN, m \in CmpMags }

\* a call of op on args returned out
Called(op, args, out) ==
  /\ call.op = "none"
  /\ call' = [op |-> op, args |-> args, out |-> out]
  /\ UNCHANGED << tvars, codec, reader, reactor >>

CmpIF == \E n \in CmpInts : \E x \in CmpFloats : Called("cmp_if", << n, x >>, cmp_if(n, x))

CmpFI == \E x \in CmpFloats : \E n \in CmpInts : Called("cmp_fi", << x, n >>, cmp_fi(x, n))

CmpFF == \E x \in CmpFloats : \E y \in CmpFloats : Called("cmp_ff", << x, y >>, cmp_ff(x, y))

CmpInit == StartWith(<<>>, 0)

CmpNext == CmpIF \/ CmpFI \/ CmpFF

CmpSpec == CmpInit /\ [][CmpNext]_vars

\* -------------------------------------------------------------- JSON values
\* A String is its UTF-8 bytes; the characters of the model are ASCII.
\* A value has one field per kind of payload; the fields that its variant
\* does not have keep the values they have in JSONNull.
JSONNull ==
  [t |-> "Null", b |-> FALSE, n |-> I64(0), x |-> F64(FALSE, Rep(0, FixLen)),
   s |-> <<>>, a |-> <<>>, m |-> <<>>]

JSONBool(b) == [JSONNull EXCEPT !.t = "Bool", !.b = b]

JSONInt(n) == [JSONNull EXCEPT !.t = "Int", !.n = n]

JSONFloat(x) == [JSONNull EXCEPT !.t = "Float", !.x = x]

JSONBinary(b) == [JSONNull EXCEPT !.t = "Binary", !.s = b]

JSONString(s) == [JSONNull EXCEPT !.t = "String", !.s = s]

JSONArray(a) == [JSONNull EXCEPT !.t = "Array", !.a = a]

\* m: the BTreeMap<String, JSON>, a function from its keys
JSONObject(m) == [JSONNull EXCEPT !.t = "Object", !.m = m]

JSONInfinity == [JSONNull EXCEPT !.t = "Infinity"]

\* mutant: Float has a class of its own, after Int
json_typeid_split(json) ==
  CASE json.t = "Null" -> 0
    [] json.t = "Bool" -> 1
    [] json.t = "Int" -> 2
    [] json.t = "Float" -> 3
    [] json.t = "Binary" -> 4
    [] json.t = "String" -> 5
    [] json.t = "Array" -> 6
    [] json.t = "Object" -> 7
    [] json.t = "Infinity" -> 8

json_typeid(json) ==
  CASE json.t = "Null" -> 0
    [] json.t = "Bool" -> 1
    [] json.t = "Int" -> 2
    [] json.t = "Float" -> 2
    [] json.t = "Binary" -> 3
    [] json.t = "String" -> 4
    [] json.t = "Array" -> 5
    [] json.t = "Object" -> 6
    [] json.t = "Infinity" -> 7

\* Ord::cmp for integers (u8, usize)
int_cmp(a, b) == IF a < b THEN "Less" ELSE IF a = b THEN "Equal" ELSE "Greater"

\* mutant: different bools are Less either way round
bool_cmp_less(a, b) == IF a = b THEN "Equal" ELSE "Less"

\* Ord::cmp for bool: false < true
bool_cmp(a, b) == IF a = b THEN "Equal" ELSE IF b THEN "Less" ELSE "Greater"

\* Ordering::then: c unless it is Equal
Then(c, d) == IF c # "Equal" THEN c ELSE d

\* Ord::cmp for [u8] and str: lexicographic by byte, a proper prefix first
RECURSIVE slice_cmp(_, _)
slice_cmp(a, b) ==
  IF a = <<>> \/ b = <<>> THEN int_cmp(Len(a), Len(b))
  ELSE Then(int_cmp(a[1], b[1]), slice_cmp(Tail(a), Tail(b)))

\* the keys of a BTreeMap<String, _> in ascending order
RECURSIVE StrSorted(_)
StrSorted(S) ==
  IF S = {} THEN <<>>
  ELSE LET k == CHOOSE x \in S : \A y \in S : slice_cmp(x, y) # "Greater"
       IN  << k >> \o StrSorted(S \ {k})

\* BTreeMap::iter: the (key, value) pairs in ascending key order
Entries(m) == [i \in 1..Cardinality(DOMAIN m) |-> << StrSorted(DOMAIN m)[i], m[StrSorted(DOMAIN m)[i]] >>]

\* Ord::cmp for Vec and BTreeMap: the first unequal pair of items decides,
\* rest being the order of the first items and then of what follows them
vec_items_first(a, b, rest) ==
  IF a = <<>> \/ b = <<>> THEN int_cmp(Len(a), Len(b)) ELSE rest

RECURSIVE json_cmp(_, _), vec_cmp(_, _), entries_cmp(_, _)

\* impl Ord for JSON
json_cmp(self, other) ==
  IF json_typeid(self) # json_typeid(other)
  THEN int_cmp(json_typeid(self), json_typeid(other))
  ELSE CASE self.t = "Null" -> "Equal"
         [] self.t = "Bool" -> bool_cmp(self.b, other.b)
         [] self.t = "Int" ->
              IF other.t = "Int" THEN i64_cmp(self.n, other.n) ELSE cmp_if(self.n, other.x)
         [] self.t = "Float" ->
              IF other.t = "Int" THEN cmp_fi(self.x, other.n) ELSE cmp_ff(self.x, other.x)
         [] self.t = "Binary" -> slice_cmp(self.s, other.s)
         [] self.t = "String" -> slice_cmp(self.s, other.s)
         [] self.t = "Array" -> vec_cmp(self.a, other.a)
         [] self.t = "Object" -> entries_cmp(Entries(self.m), Entries(other.m))
         [] self.t = "Infinity" -> "Equal"

\* Ord::cmp for Vec<JSON>
vec_cmp(a, b) ==
  vec_items_first(a, b, Then(json_cmp(a[1], b[1]), vec_cmp(Tail(a), Tail(b))))

\* Ord::cmp for BTreeMap<String, JSON>: the pairs in key order, key before value
entries_cmp(a, b) ==
  vec_items_first(a, b, Then(Then(slice_cmp(a[1][1], b[1][1]), json_cmp(a[1][2], b[1][2])),
                             entries_cmp(Tail(a), Tail(b))))

\* ---------------------------------------------------- JSON::cmp on its own
\* the ASCII codes of the letters a and b
StrA == << 97 >>

StrB == << 98 >>

\* the items of the arrays and objects compared
CmpItems == { JSONInt(I64(3)), JSONFloat(F64(FALSE, BitOr(MagPow2(1), MagPow2(0)))), JSONFloat(NaN) }

Scalars ==
  { JSONNull, JSONBool(FALSE), JSONBool(TRUE),
    JSONInt(I64(0)), JSONInt(I64(3)), JSONInt(I64(-1)), JSONInt(BitOr(I64Pow2(53), I64(1))),
    JSONInt(MaxI64),
    JSONFloat(NaN), JSONFloat(Infinite(FALSE)), JSONFloat(Infinite(TRUE)),
    JSONFloat(F64(TRUE, Rep(0, FixLen))), JSONFloat(F64(FALSE, BitOr(MagPow2(1), MagPow2(0)))),
    JSONFloat(F64(FALSE, BitOr(BitOr(MagPow2(1), MagPow2(0)), MagPow2(-1)))),
    JSONFloat(F64(FALSE, MagPow2(53))), JSONFloat(F64(FALSE, MagPow2(63))),
    JSONBinary(<<>>), JSONBinary(<< 255 >>), JSONBinary(StrA),
    JSONString(<<>>), JSONString(StrA), JSONString(StrA \o StrB), JSONString(StrB),
    JSONInfinity }

Arrays == { JSONArray(a) : a \in UNION { [1..n -> CmpItems] : n \in 0..MaxElems } }

Objects == { JSONObject(m) : m \in UNION { [S -> CmpItems] : S \in SUBSET { StrA, StrB } } }

\* arrays and objects inside arrays and objects
Nested ==
  { JSONArray(<< JSONArray(<<>>) >>), JSONArray(<< JSONArray(<< JSONFloat(NaN) >>) >>),
    JSONArray(<< JSONObject(<<>>) >>),
    JSONObject([k \in { StrA } |-> JSONArray(<<>>)]),
    JSONObject([k \in { StrA } |-> JSONArray(<< JSONInt(I64(3)) >>)]),
    JSONObject([k \in { StrA } |-> JSONObject(<<>>)]) }

JsonVals == Scalars \cup Arrays \cup Objects \cup Nested

Cmp == \E a \in JsonVals : \E b \in JsonVals : Called("cmp", << a, b >>, json_cmp(a, b))

JsonCmpInit == StartWith(<<>>, 0)

JsonCmpNext == Cmp

JsonCmpSpec == JsonCmpInit /\ [][JsonCmpNext]_vars

\* ---------------------------------------------------------------- JSON text
\* The characters of the model are ASCII; a str is the sequence of their codes.
Ascii ==
  << " ", "!", "\"", "#", "$", "%", "&", "'", "(", ")", "*", "+", ",", "-", ".", "/",
     "0", "1", "2", "3", "4", "5", "6", "7", "8", "9", ":", ";", "<", "=", ">", "?",
     "@", "A", "B", "C", "D", "E", "F", "G", "H", "I", "J", "K", "L", "M", "N", "O",
     "P", "Q", "R", "S", "T", "U", "V", "W", "X", "Y", "Z", "[", "\\", "]", "^", "_",
     "grave", "a", "b", "c", "d", "e", "f", "g", "h", "i", "j", "k", "l", "m", "n", "o",
     "p", "q", "r", "s", "t", "u", "v", "w", "x", "y", "z", "{", "|", "}", "~" >>

\* the code of a character, and the str of a sequence of characters
Chr(c) == 31 + CHOOSE i \in 1..Len(Ascii) : Ascii[i] = c

Str(cs) == [i \in 1..Len(cs) |-> Chr(cs[i])]

\* char::is_digit(10), char::is_alphabetic and char::is_whitespace
is_digit(ch) == ch \in 48..57

is_alphabetic(ch) == ch \in (65..90) \cup (97..122)

is_whitespace(ch) == ch \in (9..13) \cup { 32 }

\* b * k + c on a big-endian byte string: the carry out, then the bytes
RECURSIVE MulAdd(_, _, _)
MulAdd(b, k, c) ==
  IF b = <<>> THEN << c >>
  ELSE MulAdd(SubSeq(b, 1, Len(b) - 1), k, (b[Len(b)] * k + c) \div 256)
         \o << (b[Len(b)] * k + c) % 256 >>

\* b divided by k, from remainder r: the bytes of the quotient, then the remainder
RECURSIVE DivRem(_, _, _)
DivRem(b, k, r) ==
  IF b = <<>> THEN << r >>
  ELSE << (r * 256 + b[1]) \div k >> \o DivRem(Tail(b), k, (r * 256 + b[1]) % k)

\* the number written by decimal digits, as bytes the size of acc: <<>> when
\* it does not fit
RECURSIVE FromDecimal(_, _)
FromDecimal(digits, acc) ==
  IF digits = <<>> \/ acc = <<>> THEN acc
  ELSE FromDecimal(Tail(digits),
                   IF MulAdd(acc, 10, digits[1] - 48)[1] # 0 THEN <<>>
                   ELSE Tail(MulAdd(acc, 10, digits[1] - 48)))

\* the decimal digits of the number in the bytes b, none for 0
RECURSIVE ToDecimal(_)
ToDecimal(b) ==
  IF \A i \in 1..Len(b) : b[i] = 0 THEN <<>>
  ELSE ToDecimal(SubSeq(DivRem(b, 10, 0), 1, Len(b))) \o << 48 + DivRem(b, 10, 0)[Len(b) + 1] >>

\* the digits at the head of s
RECURSIVE DigitsAt(_)
DigitsAt(s) == IF s # <<>> /\ is_digit(s[1]) THEN << s[1] >> \o DigitsAt(Tail(s)) ELSE <<>>

\* the result of a call that can panic
Done(val) == [tag |-> "Ok", val |-> val]

Panicked(val) == [tag |-> "Panic", val |-> val]

\* str::parse::<i64>().unwrap(): an optional sign, then at least one digit and
\* nothing else; a value outside the i64 range is an Err, and unwrap panics
parse_i64(s) ==
  LET neg  == s # <<>> /\ s[1] = 45
      body == IF s # <<>> /\ s[1] \in { 43, 45 } THEN Tail(s) ELSE s
  IN  IF body = <<>> \/ DigitsAt(body) # body THEN Panicked(I64(0))
      ELSE IF FromDecimal(body, Rep(0, 8)) = <<>> THEN Panicked(I64(0))
      ELSE IF neg /\ ~LexLess(MinI64, FromDecimal(body, Rep(0, 8)))
           THEN Done(i64_neg(FromDecimal(body, Rep(0, 8))))
      ELSE IF ~neg /\ FromDecimal(body, Rep(0, 8))[1] < 128
           THEN Done(FromDecimal(body, Rep(0, 8)))
      ELSE Panicked(I64(0))

\* format!("{}", n) for an i64
fmt_i64(n) ==
  IF n = I64(0) THEN << 48 >>
  ELSE (IF n[1] >= 128 THEN << 45 >> ELSE <<>>) \o ToDecimal(i64_magnitude(n))

\* a finite f64 that the model does not represent
OtherF64(neg) == [kind |-> "other", neg |-> neg, mag |-> Rep(0, FixLen)]

\* s without its trailing zero digits
RECURSIVE StripZeros(_)
StripZeros(s) ==
  IF s # <<>> /\ s[Len(s)] = 48 THEN StripZeros(SubSeq(s, 1, Len(s) - 1)) ELSE s

\* the number written by decimal digits, or cap when it is larger
RECURSIVE SmallDecimal(_, _, _)
SmallDecimal(digits, acc, cap) ==
  IF digits = <<>> THEN acc
  ELSE SmallDecimal(Tail(digits), Min(cap, acc * 10 + digits[1] - 48), cap)

\* the digits of a fraction (at most 8) as a number, and of an exponent
FracValue(fp) == SmallDecimal(fp, 0, 100000000)

ExpValue(digits) == SmallDecimal(digits, 0, 1000)

\* the f64 nearest to the decimal with the digits ip before the point and fp
\* (no trailing zero) after it: exact arithmetic, then rounding to 53 bits
NearestF64(neg, ip, fp) ==
  IF Len(fp) > 8 \/ FracValue(fp) % (5 ^ Len(fp)) # 0 THEN OtherF64(neg)
  ELSE IF FromDecimal(ip, Rep(0, 10)) = <<>> \/ FromDecimal(ip, Rep(0, 10))[1] >= 128
       THEN OtherF64(neg)
  ELSE F64(neg,
           BytesOf(RoundAt(
             BitsOf(FromDecimal(ip, Rep(0, 10))
                      \o << (FracValue(fp) \div (5 ^ Len(fp))) * (2 ^ (8 - Len(fp))) >>),
             LeadingOne(
               BitsOf(FromDecimal(ip, Rep(0, 10))
                        \o << (FracValue(fp) \div (5 ^ Len(fp))) * (2 ^ (8 - Len(fp))) >>))
             + 52)))

\* the decimal with digits d and the point after the first p of them
PointAt(neg, d, p) ==
  NearestF64(neg,
             IF p <= 0 THEN <<>> ELSE IF p >= Len(d) THEN d \o Rep(48, p - Len(d))
             ELSE SubSeq(d, 1, p),
             StripZeros(IF p >= Len(d) THEN <<>> ELSE IF p <= 0 THEN Rep(48, 0 - p) \o d
                        ELSE SubSeq(d, p + 1, Len(d))))

\* the decimal ip.fp * 10^e; beyond 10^400 it is an infinity, below 10^-400 zero
Scaled(neg, ip, fp, e) ==
  IF \A i \in 1..Len(ip \o fp) : (ip \o fp)[i] = 48 THEN F64(neg, Rep(0, FixLen))
  ELSE IF e > 400 THEN Infinite(neg)
  ELSE IF e < 0 - 400 THEN F64(neg, Rep(0, FixLen))
  ELSE PointAt(neg, ip \o fp, Len(ip) + e)

\* str::parse::<f64>().unwrap() on the text of a Float token: digits, then
\* maybe a point and digits, then maybe an e or E with a signed exponent.
\* An exponent without digits is an Err, and unwrap panics.
F64Parts(neg, ip, afterip) ==
  LET fp     == IF afterip # <<>> /\ afterip[1] = 46 THEN DigitsAt(Tail(afterip)) ELSE <<>>
      rest   == IF afterip # <<>> /\ afterip[1] = 46
                THEN SubSeq(afterip, Len(fp) + 2, Len(afterip)) ELSE afterip
      hasexp == rest # <<>> /\ rest[1] \in { 69, 101 }
      eneg   == hasexp /\ Len(rest) >= 2 /\ rest[2] = 45
      edigs  == IF hasexp /\ Len(rest) >= 2 /\ rest[2] \in { 43, 45 }
                THEN SubSeq(rest, 3, Len(rest)) ELSE Tail(rest)
  IN  IF ip = <<>> /\ fp = <<>> THEN Panicked(NaN)
      ELSE IF rest = <<>> THEN Done(Scaled(neg, ip, fp, 0))
      ELSE IF ~hasexp \/ edigs = <<>> \/ DigitsAt(edigs) # edigs THEN Panicked(NaN)
      ELSE Done(Scaled(neg, ip, fp,
                       IF eneg THEN 0 - ExpValue(edigs) ELSE ExpValue(edigs)))

parse_f64(s) ==
  IF s # <<>> /\ s[1] = 45 THEN F64Parts(TRUE, DigitsAt(Tail(s)),
                                        SubSeq(s, Len(DigitsAt(Tail(s))) + 2, Len(s)))
  ELSE F64Parts(FALSE, DigitsAt(s), SubSeq(s, Len(DigitsAt(s)) + 1, Len(s)))

\* the decimal digits of the fraction byte / 256, without trailing zeros
FractionDigits(byte) ==
  LET n == byte * 390625
  IN  StripZeros([i \in 1..8 |-> 48 + ((n \div (10 ^ (8 - i))) % 10)])

\* the finite f64 whose shortest decimal that reads back is its exact value:
\* the integers below 2^53, and the multiples of 1/256 below 2^20
Displayable(x) ==
  /\ x.kind = "fin"
  /\ \A i \in 1..3 : x.mag[i] = 0
  /\ x.mag[4] < 32
  /\ x.mag[FixLen] # 0 => (\A i \in 1..7 : x.mag[i] = 0) /\ x.mag[8] < 16

\* format!("{}", x) for an f64: NaN, inf, -inf, and for a finite x the shortest
\* decimal that reads back as x, without exponent (given here for Displayable x)
fmt_f64(x) ==
  IF x.kind = "nan" THEN Str(<< "N", "a", "N" >>)
  ELSE IF x.kind = "inf"
       THEN (IF x.neg THEN << 45 >> ELSE <<>>) \o Str(<< "i", "n", "f" >>)
  ELSE (IF x.neg THEN << 45 >> ELSE <<>>)
       \o (IF \A i \in 1..10 : x.mag[i] = 0 THEN << 48 >> ELSE ToDecimal(SubSeq(x.mag, 1, 10)))
       \o (IF x.mag[FixLen] = 0 THEN <<>> ELSE << 46 >> \o FractionDigits(x.mag[FixLen]))

\* format!("{:?}", s) for a str of ASCII characters: in double quotes, with
\* the double quote, the backslash and the line feed escaped
RECURSIVE escape_debug(_)
escape_debug(s) ==
  IF s = <<>> THEN <<>>
  ELSE (CASE s[1] = 34 -> << 92, 34 >>
          [] s[1] = 92 -> << 92, 92 >>
          [] s[1] = 10 -> << 92, 110 >>
          [] OTHER -> << s[1] >>) \o escape_debug(Tail(s))

fmt_debug(s) == << 34 >> \o escape_debug(s) \o << 34 >>

\* util::repr: the bytes in double quotes, those outside 32..126 as a
\* backslash and two hexadecimal digits
Hex == Str(<< "0", "1", "2", "3", "4", "5", "6", "7", "8", "9", "A", "B", "C", "D", "E", "F" >>)

RECURSIVE repr_bytes(_)
repr_bytes(v) ==
  IF v = <<>> THEN <<>>
  ELSE (IF v[1] < 32 \/ v[1] > 126
        THEN << 92, Hex[(v[1] \div 16) + 1], Hex[(v[1] % 16) + 1] >>
        ELSE << v[1] >>) \o repr_bytes(Tail(v))

repr(v) == << 34 >> \o repr_bytes(v) \o << 34 >>

\* s with sep between its items
RECURSIVE Join(_, _)
Join(ss, sep) ==
  IF ss = <<>> THEN <<>>
  ELSE IF Len(ss) = 1 THEN ss[1]
  ELSE ss[1] \o sep \o Join(Tail(ss), sep)

RECURSIVE json_encode(_)
json_encode(json) ==
  CASE json.t = "Null" -> Str(<< "n", "u", "l", "l" >>)
    [] json.t = "Bool" ->
         IF json.b THEN Str(<< "t", "r", "u", "e" >>) ELSE Str(<< "f", "a", "l", "s", "e" >>)
    [] json.t = "Int" -> fmt_i64(json.n)
    [] json.t = "Float" -> fmt_f64(json.x)
    [] json.t = "Binary" -> repr(json.s)
    [] json.t = "String" -> fmt_debug(json.s)
    [] json.t = "Array" ->
         << 91 >> \o Join([i \in 1..Len(json.a) |-> json_encode(json.a[i])], << 44, 32 >>)
           \o << 93 >>
    [] json.t = "Object" ->
         << 123 >>
           \o Join([i \in 1..Len(Entries(json.m)) |->
                      fmt_debug(Entries(json.m)[i][1]) \o << 58, 32 >>
                        \o json_encode(Entries(json.m)[i][2])], << 44, 32 >>)
           \o << 125 >>
    [] json.t = "Infinity" -> Str(<< "i", "n", "f", "i", "n", "i", "t", "y" >>)

\* ------------------------------------------------------------- json_tokens
\* a token: (Token, &str)
Tok(token, s) == [token |-> token, s |-> s]

\* the tokenizer before the first character
TokStart == [begin |-> 0, state |-> "Begin", token |-> "Punctuation", tokens |-> <<>>]

\* the first match of the loop: the state the character ch at index i leaves
TokFirst(k, ch, i) ==
  CASE k.state = "Begin" -> k
    [] k.state = "NegNumber" ->
         IF is_digit(ch) THEN [k EXCEPT !.state = "Number", !.token = "Int"]
         ELSE [k EXCEPT !.state = "Begin"]
    [] k.state = "Number" ->
         IF ch = 46 THEN [k EXCEPT !.state = "NumberFrac", !.token = "Float"]
         ELSE IF ch \in { 101, 69 } THEN [k EXCEPT !.state = "NumberExpSig", !.token = "Float"]
         ELSE IF ~is_digit(ch) THEN [k EXCEPT !.state = "Begin"]
         ELSE k
    [] k.state = "NumberFrac" ->
         IF ch \in { 101, 69 } THEN [k EXCEPT !.state = "NumberExpSig"]
         ELSE IF ~is_digit(ch) THEN [k EXCEPT !.state = "Begin"]
         ELSE k
    [] k.state = "NumberExpSig" ->
         IF ch \in { 45, 43 } THEN [k EXCEPT !.state = "NumberExp"]
         ELSE IF is_digit(ch) THEN [k EXCEPT !.state = "NumberExp"]
         ELSE [k EXCEPT !.state = "Begin"]
    [] k.state = "NumberExp" ->
         IF ~is_digit(ch) THEN [k EXCEPT !.state = "Begin"] ELSE k
    [] k.state = "String" ->
         IF ch = 34 THEN [k EXCEPT !.state = "StringEnd"]
         ELSE IF ch = 92 THEN [k EXCEPT !.state = "StringEscape"]
         ELSE k
    [] k.state = "StringEnd" -> [k EXCEPT !.state = "Begin"]
    [] k.state = "StringEscape" -> [k EXCEPT !.state = "String"]
    [] k.state = "Identifier" ->
         IF ~is_alphabetic(ch) THEN [k EXCEPT !.state = "Begin"] ELSE k
    [] k.state = "Whitespace" ->
         IF ~is_whitespace(ch) THEN [k EXCEPT !.begin = i, !.state = "Begin"] ELSE k

\* in state Begin: the token that ends at index i, if any, is pushed
TokPush(k, s, i) ==
  IF i > k.begin
  THEN [k EXCEPT !.tokens = Append(@, Tok(k.token, SubSeq(s, k.begin + 1, i))),
                 !.token = "Punctuation", !.begin = i]
  ELSE k

\* in state Begin: the state the character ch opens
TokOpen(k, ch) ==
  IF ch = 34 THEN [k EXCEPT !.state = "String", !.token = "String"]
  ELSE IF is_digit(ch) THEN [k EXCEPT !.state = "Number", !.token = "Int"]
  ELSE IF ch = 45 THEN [k EXCEPT !.state = "NegNumber"]
  ELSE IF is_whitespace(ch) THEN [k EXCEPT !.state = "Whitespace"]
  ELSE IF is_alphabetic(ch) THEN [k EXCEPT !.state = "Identifier", !.token = "Identifier"]
  ELSE k

\* the second match of the loop
TokSecond(k, s, ch, i) == IF k.state = "Begin" THEN TokOpen(TokPush(k, s, i), ch) ELSE k

\* the loop over s.char_indices() from index i (in state Begin the first match
\* does nothing)
RECURSIVE TokLoop(_, _, _)
TokLoop(k, s, i) ==
  IF i = Len(s) THEN k
  ELSE IF k.state = "Begin" THEN TokLoop(TokSecond(k, s, s[i + 1], i), s, i + 1)
  ELSE TokLoop(TokSecond(TokFirst(k, s[i + 1], i), s, s[i + 1], i), s, i + 1)

\* at the end of s: what is left from begin is the last token
TokEnd(k, s) ==
  IF k.begin < Len(s)
  THEN Append(k.tokens, Tok(k.token, SubSeq(s, k.begin + 1, Len(s))))
  ELSE k.tokens

json_tokens(s) == TokEnd(TokLoop(TokStart, s, 0), s)

\* ------------------------------------------------------------------ parser
\* s[1..n] with n = s.len() - 1, less its backslashes; the slice panics when
\* s is a single character
unescape_str(s) ==
  IF 1 > Len(s) - 1 THEN Panicked(<<>>)
  ELSE Done(SelectSeq(SubSeq(s, 2, Len(s) - 1), LAMBDA ch : ch # 92))

\* what a parsing function returns, and where it leaves the token iterator:
\* Ok(val), Err(EOF), Err(UnexpectedToken(s)), or a panic
POk(val, pos) == [tag |-> "Ok", val |-> val, err |-> "", s |-> <<>>, pos |-> pos]

PEof(pos) == [tag |-> "Err", val |-> JSONNull, err |-> "EOF", s |-> <<>>, pos |-> pos]

PUnexpected(s, pos) ==
  [tag |-> "Err", val |-> JSONNull, err |-> "UnexpectedToken", s |-> s, pos |-> pos]

PPanic(pos) == [tag |-> "Panic", val |-> JSONNull, err |-> "", s |-> <<>>, pos |-> pos]

\* Ok(make(x)) for the x a conversion returned, a panic when it panicked
Converted(r, val, pos) == IF r.tag = "Panic" THEN PPanic(pos) ELSE POk(val, pos)

\* json_value at an Identifier token
json_identifier(s, pos) ==
  IF s = Str(<< "n", "u", "l", "l" >>) THEN POk(JSONNull, pos)
  ELSE IF s = Str(<< "t", "r", "u", "e" >>) THEN POk(JSONBool(TRUE), pos)
  ELSE IF s = Str(<< "f", "a", "l", "s", "e" >>) THEN POk(JSONBool(FALSE), pos)
  ELSE IF s = Str(<< "i", "n", "f", "i", "n", "i", "t", "y" >>) THEN POk(JSONInfinity, pos)
  ELSE PUnexpected(s, pos)

\* m.insert(key, value)
str_insert(m, k, v) == [x \in DOMAIN m \cup { k } |-> IF x = k THEN v ELSE m[x]]

RECURSIVE json_value(_, _), json_array(_, _), array_first(_, _), array_loop(_, _, _),
          array_item(_, _, _), json_object(_, _), object_loop(_, _, _),
          object_key(_, _, _, _), object_colon(_, _, _, _), object_value(_, _, _, _)

\* json_value with the iterator ti before the token pos of toks
json_value(toks, pos) ==
  IF pos > Len(toks) THEN PEof(pos)
  ELSE CASE toks[pos].token = "Int" ->
              Converted(parse_i64(toks[pos].s), JSONInt(parse_i64(toks[pos].s).val), pos + 1)
         [] toks[pos].token = "Float" ->
              Converted(parse_f64(toks[pos].s), JSONFloat(parse_f64(toks[pos].s).val), pos + 1)
         [] toks[pos].token = "String" ->
              Converted(unescape_str(toks[pos].s), JSONString(unescape_str(toks[pos].s).val),
                        pos + 1)
         [] toks[pos].token = "Identifier" -> json_identifier(toks[pos].s, pos + 1)
         [] toks[pos].token = "Punctuation" ->
              IF toks[pos].s[1] = 91 THEN json_array(toks, pos + 1)
              ELSE IF toks[pos].s[1] = 123 THEN json_object(toks, pos + 1)
              ELSE PUnexpected(toks[pos].s, pos + 1)

\* json_array: ti has just produced the '['
json_array(toks, pos) == array_first(toks, json_value(toks, pos))

\* the first json_value of json_array returned r: an UnexpectedToken("]"),
\* wherever it comes from, ends the array as empty
array_first(toks, r) ==
  IF r.tag = "Ok" THEN array_loop(toks, r.pos, << r.val >>)
  ELSE IF r.tag = "Err" /\ r.err = "UnexpectedToken" /\ r.s = << 93 >>
       THEN POk(JSONArray(<<>>), r.pos)
  ELSE r

\* the loop of json_array: a ',' or a ']'
array_loop(toks, pos, v) ==
  IF pos > Len(toks) THEN PEof(pos)
  ELSE IF toks[pos].token # "Punctuation" THEN PUnexpected(toks[pos].s, pos + 1)
  ELSE IF toks[pos].s[1] = 93 THEN POk(JSONArray(v), pos + 1)
  ELSE IF toks[pos].s[1] = 44 THEN array_item(toks, json_value(toks, pos + 1), v)
  ELSE PUnexpected(toks[pos].s, pos + 1)

\* the json_value after a ','
array_item(toks, r, v) ==
  IF r.tag = "Ok" THEN array_loop(toks, r.pos, Append(v, r.val)) ELSE r

\* json_object: ti has just produced the '{'
json_object(toks, pos) == object_key(toks, pos, <<>>, TRUE)

\* the loop of json_object, not the first time round: a ',' or a '}'
object_loop(toks, pos, m) ==
  IF pos > Len(toks) THEN PEof(pos)
  ELSE IF toks[pos].token # "Punctuation" THEN PUnexpected(toks[pos].s, pos + 1)
  ELSE IF toks[pos].s = << 125 >> THEN POk(JSONObject(m), pos + 1)
  ELSE IF toks[pos].s # << 44 >> THEN PUnexpected(toks[pos].s, pos + 1)
  ELSE object_key(toks, pos + 1, m, FALSE)

\* a string, or a '}' the first time round
object_key(toks, pos, m, first) ==
  IF pos > Len(toks) THEN PEof(pos)
  ELSE IF toks[pos].token = "Punctuation"
       THEN (IF toks[pos].s = << 125 >> /\ first THEN POk(JSONObject(m), pos + 1)
             ELSE PUnexpected(toks[pos].s, pos + 1))
  ELSE IF toks[pos].token = "String"
       THEN (IF unescape_str(toks[pos].s).tag = "Panic" THEN PPanic(pos + 1)
             ELSE object_colon(toks, pos + 1, m, unescape_str(toks[pos].s).val))
  ELSE PUnexpected(toks[pos].s, pos + 1)

\* a ':'
object_colon(toks, pos, m, key) ==
  IF pos > Len(toks) THEN PEof(pos)
  ELSE IF toks[pos].token # "Punctuation" \/ toks[pos].s # << 58 >>
       THEN PUnexpected(toks[pos].s, pos + 1)
  ELSE object_value(toks, json_value(toks, pos + 1), m, key)

\* the json_value after the ':'
object_value(toks, r, m, key) ==
  IF r.tag = "Ok" THEN object_loop(toks, r.pos, str_insert(m, key, r.val)) ELSE r

\* pub fn json_decode
json_decode(s) == json_value(json_tokens(s), 1)

\* what json_decode_all returns: Ok(v), Err(e) or a panic
AllOk(v) == [tag |-> "Ok", vals |-> v, err |-> "", s |-> <<>>]

\* the loop of json_decode_all: json_value returned r
RECURSIVE decode_all_loop(_, _, _)
decode_all_loop(toks, r, v) ==
  IF r.tag = "Ok" THEN decode_all_loop(toks, json_value(toks, r.pos), Append(v, r.val))
  ELSE IF r.tag = "Err" /\ r.err = "EOF" THEN AllOk(v)
  ELSE [tag |-> r.tag, vals |-> <<>>, err |-> r.err, s |-> r.s]

\* pub fn json_decode_all
json_decode_all(s) == decode_all_loop(json_tokens(s), json_value(json_tokens(s), 1), <<>>)

\* -------------------------------------------------- JSON text on its own
\* the pieces the texts decoded are made of
TextPieces ==
  { Str(<< "[" >>), Str(<< "]" >>), Str(<< "{" >>), Str(<< "}" >>), Str(<< "," >>),
    Str(<< ":" >>), Str(<< " " >>), Str(<< "0" >>), Str(<< "0", ".", "5" >>), Str(<< "-" >>),
    Str(<< "e" >>), Str(<< "\"", "a", "\"" >>), Str(<< "\"" >>), Str(<< "n", "u", "l", "l" >>) }

\* texts of more pieces: [[1,]], [1,], {"a": 1}, {"a" 1}, 1e, 2^63 and -2^63 in
\* decimal, a line feed between two values, and
\* [1, 2.5, "x", null, true, {"a": []}]
LongTexts ==
  { Str(<< "[", "[", "1", ",", "]", "]" >>), Str(<< "[", "1", ",", "]" >>),
    Str(<< "{", "\"", "a", "\"", ":", " ", "1", "}" >>),
    Str(<< "{", "\"", "a", "\"", " ", "1", "}" >>),
    Str(<< "1", "e" >>),
    Str(<< "9", "2", "2", "3", "3", "7", "2", "0", "3", "6", "8", "5", "4", "7", "7", "5",
           "8", "0", "8" >>),
    Str(<< "-", "9", "2", "2", "3", "3", "7", "2", "0", "3", "6", "8", "5", "4", "7", "7", "5",
           "8", "0", "8" >>),
    Str(<< "t", "r", "u", "e" >>) \o << 10 >> \o Str(<< "2", ".", "5" >>),
    Str(<< "[", "1", ",", " ", "2", ".", "5", ",", " ", "\"", "x", "\"", ",", " ",
           "n", "u", "l", "l", ",", " ", "t", "r", "u", "e", ",", " ",
           "{", "\"", "a", "\"", ":", " ", "[", "]", "}", "]" >>) }

JsonTexts ==
  { Concat(ps) : ps \in UNION { [1..n -> TextPieces] : n \in 0..MaxText } } \cup LongTexts

\* [1, 2.5, "x", null, true, {"a": []}]
Scenario ==
  JSONArray(<< JSONInt(I64(1)), JSONFloat(F64(FALSE, BitOr(MagPow2(1), MagPow2(-1)))),
               JSONString(Str(<< "x" >>)), JSONNull, JSONBool(TRUE),
               JSONObject([k \in { StrA } |-> JSONArray(<<>>)]) >>)

\* the values encoded
EncVals ==
  { JSONNull, JSONBool(FALSE), JSONBool(TRUE), JSONInfinity,
    JSONInt(I64(0)), JSONInt(I64(-1)), JSONInt(I64(1234567)), JSONInt(MinI64), JSONInt(MaxI64),
    JSONFloat(F64(FALSE, BitOr(MagPow2(1), MagPow2(-1)))), JSONFloat(F64(FALSE, MagPow2(0))),
    JSONFloat(F64(TRUE, Rep(0, FixLen))), JSONFloat(F64(TRUE, MagPow2(-8))),
    JSONFloat(F64(FALSE, MagOfU64(<< 0, 31, 255, 255, 255, 255, 255, 255 >>))),
    JSONFloat(NaN), JSONFloat(Infinite(FALSE)), JSONFloat(Infinite(TRUE)),
    JSONBinary(<<>>), JSONBinary(StrA), JSONBinary(<< 0, 255 >>),
    JSONString(<<>>), JSONString(StrA), JSONString(Str(<< "a", " ", "[", "1" >>)),
    JSONString(<< 34 >>), JSONString(<< 92 >>), JSONString(<< 10 >>),
    JSONArray(<<>>), JSONArray(<< JSONArray(<<>>), JSONObject(<<>>) >>), Scenario,
    JSONObject(<<>>),
    JSONObject([k \in { StrA, StrB } |-> IF k = StrA THEN JSONInt(I64(1)) ELSE JSONNull]) }

JsonEncode ==
  /\ call.op = "none"
  /\ \E v \in EncVals : Called("json_encode", << v >>, json_encode(v))

\* json_decode of the text that json_encode has returned
JsonDecodeEncoded ==
  /\ call.op = "json_encode"
  /\ call' = [op |-> "json_decode", args |-> << call.out >>, out |-> json_decode(call.out)]
  /\ UNCHANGED << tvars, codec, reader, reactor >>

JsonDecode ==
  /\ call.op = "none"
  /\ \E s \in JsonTexts : Called("json_decode", << s >>, json_decode(s))

JsonDecodeAll ==
  /\ call.op = "none"
  /\ \E s \in JsonTexts : Called("json_decode_all", << s >>, json_decode_all(s))

JsonTextInit == StartWith(<<>>, 0)

JsonTextNext == JsonEncode \/ JsonDecodeEncoded \/ JsonDecode \/ JsonDecodeAll

JsonTextSpec == JsonTextInit /\ [][JsonTextNext]_vars


\* ------------------------------------------------------------ SimpleReader
\* v.split_off(at): the bytes of v from index at
split_off(v, at) == SubSeq(v, at + 1, Len(v))

\* a line printed by run
Line(kind, text) == [kind |-> kind, text |-> text]

\* U+FFFD REPLACEMENT CHARACTER
Replacement == 65533

\* String::from_utf8_lossy(bytes), a text being the sequence of its code
\* points: a byte below 0x80 is the character of that code, and a byte from
\* 0xF5, which no UTF-8 sequence holds, is replaced by U+FFFD. The bytes 0x80
\* to 0xF4 of longer sequences do not occur in the streams of this model.
from_utf8_lossy(bytes) ==
  [i \in 1..Len(bytes) |-> IF bytes[i] < 128 THEN bytes[i] ELSE Replacement]

\* the UTF-8 bytes of one character
char_bytes(c) == IF c < 128 THEN << c >> ELSE << 239, 191, 189 >>

\* str::as_bytes: the UTF-8 bytes of a text of characters below 0x80 and U+FFFD
RECURSIVE as_bytes(_)
as_bytes(text) ==
  IF text = <<>> THEN <<>> ELSE char_bytes(Head(text)) \o as_bytes(Tail(text))

\* println!("got: {}", text): the line is printed and, for the history of the
\* connection, added to the texts delivered since it was accepted
deliver(r, text) ==
  [r EXCEPT !.printed = Append(@, Line("got", text)), !.got = Append(@, text)]

\* ReactorAction::Remove(self.stream.as_raw_fd())
ReactorRemove == "Remove"

RECURSIVE frame_loop(_), frame_begin(_, _), frame_consumed(_, _)

\* one turn of the loop of run on the reader r
frame_loop(r) ==
  IF r.state.tag = "Begin" THEN frame_begin(r, decode_u64(r.buffer, 0))
  ELSE IF Len(r.buffer) >= r.state.n
       THEN frame_consumed([deliver(r, from_utf8_lossy(SubSeq(r.buffer, 1, r.state.n)))
                              EXCEPT !.state = Begin],
                           r.state.n)
  ELSE frame_consumed(r, 0)

\* ReaderState::Begin: u64::decode_stats on a Cursor over the buffer returned d
frame_begin(r, d) ==
  IF d.res = "Ok" THEN frame_consumed([r EXCEPT !.state = ReadSize(d.val)], d.nread)
  ELSE IF d.res = "EOF" THEN frame_consumed(r, 0)
  ELSE frame_consumed([r EXCEPT !.printed = Append(@, Line("protocol error!", <<>>))], 0)

\* the end of a turn: break, or splice the consumed bytes out and go round
frame_consumed(r, consumed) ==
  IF consumed = 0 THEN r ELSE frame_loop([r EXCEPT !.buffer = split_off(@, consumed)])

\* the bytes a connection delivers: frames with the length prefixes 0 and 2,
\* the three-byte prefix 253, and 255, which is no length prefix
StreamBytes == { 0, 2, 97, 253, 255 }

Streams == UNION { [1..n -> StreamBytes] : n \in 1..MaxStream }

\* SimpleListener::run accepts a connection; the reactor adds its reader
ReaderAccept ==
  /\ reader.conn = "none"
  /\ \E s \in Streams : reader' = [NoReader EXCEPT !.conn = "open", !.stream = s, !.sent = s]
  /\ UNCHANGED << tvars, codec, call, reactor >>

\* SimpleReader::run when read returns Ok(n) with n > 0
ReaderRun ==
  /\ reader.conn = "open"
  /\ \E n \in 1..Min(1024, Len(reader.stream)) :
       reader' = frame_loop([reader EXCEPT !.stream = split_off(@, n),
                                           !.buffer = @ \o SubSeq(reader.stream, 1, n),
                                           !.actions = <<>>,
                                           !.printed = <<>>])
  /\ UNCHANGED << tvars, codec, call, reactor >>

\* SimpleReader::run when read returns Ok(0): the peer has closed after its
\* last byte; the reactor removes the reader
ReaderRunEof ==
  /\ reader.conn = "open"
  /\ reader.stream = <<>>
  /\ reader' = [reader EXCEPT !.conn = "removed", !.actions = << ReactorRemove >>, !.printed = <<>>]
  /\ UNCHANGED << tvars, codec, call, reactor >>

\* SimpleReader::run when read returns Err(e); the reactor removes the reader
ReaderRunError ==
  /\ reader.conn = "open"
  /\ reader' = [reader EXCEPT !.conn = "removed", !.actions = << ReactorRemove >>,
                              !.printed = << Line("error reading", <<>>) >>]
  /\ UNCHANGED << tvars, codec, call, reactor >>

ReaderInit == StartWith(<<>>, 0)

ReaderNext == ReaderAccept \/ ReaderRun \/ ReaderRunEof \/ ReaderRunError

ReaderSpec == ReaderInit /\ [][ReaderNext]_vars

\* ------------------------------------------------------ f64 as IEEE 754 bytes
\* An f64 of f64_conv.rs is kept as the number it is, whatever its bytes
\* are: its class, its sign (1 or -1), the exponent exp of its leading bit
\* and the bits frac after the leading bit, with no trailing zero, so that a
\* finite number is sign * 1.frac * 2^exp. A NaN keeps its sign and, in frac,
\* its payload.
Float(cls, sign, exp, frac) == [cls |-> cls, sign |-> sign, exp |-> exp, frac |-> frac]

\* the bits without their trailing zeros
RECURSIVE TrimBits(_)
TrimBits(bits) ==
  IF bits = <<>> THEN <<>>
  ELSE IF bits[Len(bits)] = 1 THEN bits
  ELSE TrimBits(SubSeq(bits, 1, Len(bits) - 1))

\* f64::NAN, f64::INFINITY and f64::NEG_INFINITY, 0f64 and -0f64
F64_NAN == Float("Nan", 1, 0, << 1 >>)

F64_INFINITY(sign) == Float("Infinite", sign, 0, <<>>)

F64_ZERO(sign) == Float("Zero", sign, 0, <<>>)

\* f64::classify
classify(x) ==
  IF x.cls = "Finite" THEN (IF x.exp < -1022 THEN "Subnormal" ELSE "Normal") ELSE x.cls

\* f64::signum as i8
signum(x) == x.sign

\* the number of a sequence of at most 16 bits, most significant first
RECURSIVE BitsNat(_)
BitsNat(bits) ==
  IF bits = <<>> THEN 0 ELSE 2 * BitsNat(SubSeq(bits, 1, Len(bits) - 1)) + bits[Len(bits)]

\* the bits of the number n, w bits wide
NatBits(n, w) == [i \in 1..w |-> (n \div (2 ^ (w - i))) % 2]

\* a u64 as its 64 bits: the bits after the binary point of a fraction
\* below 1, multiplied by 2^52 and truncated (as u64)
mant_of(digits) == Rep(0, 12) \o [i \in 1..52 |-> IF i <= Len(digits) THEN digits[i] ELSE 0]

\* n < (exp as f64).exp2(), for a finite n > 0: exp2 is infinite from 1024
lt_exp2(n, exp) == exp >= 1024 \/ n.exp < exp

\* mutant: the exponent is taken as the log gave it
round_down_never(n, exp) == exp

\* lines 32-34: the exponent is rounded down when the log was not
round_down(n, exp) == IF lt_exp2(n, exp) THEN exp - 1 ELSE exp

\* lines 43-62 of f64_to_parts: biased exponent and mantissa of the finite n
\* whose exponent is exp. normn = n / 2^expf is 1.frac (normal) or
\* 0.0..01frac (subnormal); frac drops the leading 1 of a normal number.
parts_of(sign, n, exp) ==
  IF exp < -1022
  THEN [sign |-> sign, bexp |-> 0,
        mant |-> mant_of(Rep(0, (-1022 - n.exp) - 1) \o << 1 >> \o n.frac)]
  ELSE [sign |-> sign, bexp |-> (exp + 1023) % 65536, mant |-> mant_of(n.frac)]

\* f64_to_parts(sn); up is what n.log2().floor() is above the exponent of n:
\* 0, or 1 when the log of a number just below a power of two was rounded up
f64_to_parts(sn, up) ==
  IF classify(sn) = "Nan" THEN [sign |-> 1, bexp |-> 2047, mant |-> Rep(0, 12) \o << 1 >> \o Rep(0, 51)]
  ELSE IF classify(sn) = "Infinite" THEN [sign |-> signum(sn), bexp |-> 2047, mant |-> Rep(0, 64)]
  ELSE IF classify(sn) = "Zero" THEN [sign |-> signum(sn), bexp |-> 0, mant |-> Rep(0, 64)]
  ELSE parts_of(signum(sn), [sn EXCEPT !.sign = 1],
                round_down([sn EXCEPT !.sign = 1], sn.exp + up))

\* (mant >> 8 * j) & 0xFF
mant_byte(mant, j) == BitsNat(SubSeq(mant, 57 - 8 * j, 64 - 8 * j))

\* the bytes written for the parts p
bytes_of_parts(p) ==
  << ((IF p.sign < 0 THEN p.bexp + 2048 ELSE p.bexp) \div 16) % 256,
     ((((p.bexp * 16) % 65536) % 256) + mant_byte(p.mant, 6)) % 256,
     mant_byte(p.mant, 5), mant_byte(p.mant, 4), mant_byte(p.mant, 3),
     mant_byte(p.mant, 2), mant_byte(p.mant, 1), mant_byte(p.mant, 0) >>

\* f64_to_bytes(n)
f64_to_bytes(n, up) == bytes_of_parts(f64_to_parts(n, up))

\* a fraction below 1 given by the bits after its point, times 2^expf, as
\* the number it is (the fraction is not zero)
RECURSIVE scaled(_, _, _)
scaled(sign, digits, expf) ==
  IF Head(digits) = 1 THEN Float("Finite", sign, expf - 1, TrimBits(Tail(digits)))
  ELSE scaled(sign, Tail(digits), expf - 1)

\* f64_from_parts(sign, bexp, mant), for mant < 2^52
f64_from_parts(sign, bexp, mant) ==
  IF bexp = 2047
  THEN (IF mant # Rep(0, 64) THEN F64_NAN ELSE F64_INFINITY(sign))
  ELSE IF bexp = 0 /\ mant = Rep(0, 64) THEN F64_ZERO(sign)
  ELSE IF bexp > 0
       THEN Float("Finite", sign, bexp - 1023, TrimBits(SubSeq(mant, 13, 64)))
       ELSE scaled(sign, SubSeq(mant, 13, 64), -1022)

\* f64_from_bytes(v), for v of at least 8 bytes
f64_from_bytes(v) ==
  f64_from_parts(IF v[1] >= 128 THEN -1 ELSE 1,
                 ((v[1] % 128) * 16) + (v[2] \div 16),
                 Rep(0, 12) \o NatBits(v[2] % 16, 4) \o BitsOf(SubSeq(v, 3, 8)))

\* the numbers converted: the exponents at the ends of the subnormal and the
\* normal range and around 0 and 52, with short fractions, 52 ones, the last
\* bit alone and the fraction of 3.14159265
ConvExps == { -1074, -1073, -1072, -1024, -1023, -1022, -1021, -53, -52, -1, 0, 1, 52, 53, 1022, 1023 }

ShortFracs == { TrimBits(f) : f \in UNION { [1..n -> { 0, 1 }] : n \in 0..MaxFrac } }

PiFrac == SubSeq(BitsOf(<< 9, 33, 251, 83, 200, 212, 241 >>), 5, 56)

ConvFracs == ShortFracs \cup { Rep(1, 52), Rep(0, 51) \o << 1 >>, PiFrac }

ConvFloats ==
  UNION { { Float("Finite", s, e, f) : s \in { 1, -1 },
                                       f \in { g \in ConvFracs : Len(g) <= Min(52, e + 1074) } } :
          e \in ConvExps }
  \cup { F64_ZERO(s) : s \in { 1, -1 } } \cup { F64_INFINITY(s) : s \in { 1, -1 } }
  \cup { Float("Nan", s, 0, f) : s \in { 1, -1 }, f \in { << 1 >>, << 0, 1 >>, << 1, 0, 1 >>, Rep(1, 52) } }

\* the byte strings parsed on their own: those of check_f64_conversions and
\* some NaNs
ConvBytes ==
  { << 64, 9, 33, 251, 83, 200, 212, 241 >>, << 192, 9, 33, 251, 83, 200, 212, 241 >>,
    << 0, 18, 0, 0, 0, 0, 0, 0 >>, << 0, 9, 0, 0, 0, 0, 0, 0 >>,
    << 127, 248, 0, 0, 0, 0, 0, 0 >>, << 127, 240, 0, 0, 0, 0, 0, 0 >>,
    << 255, 240, 0, 0, 0, 0, 0, 0 >>, << 127, 239, 255, 255, 255, 255, 255, 255 >>,
    << 0, 16, 0, 0, 0, 0, 0, 0 >>, << 60, 176, 0, 0, 0, 0, 0, 0 >>,
    << 0, 0, 0, 0, 0, 0, 0, 0 >>, << 128, 0, 0, 0, 0, 0, 0, 0 >>,
    << 127, 240, 0, 0, 0, 0, 0, 1 >>, << 255, 255, 255, 255, 255, 255, 255, 255 >>,
    << 0, 0, 0, 0, 0, 0, 0, 1 >> }

F64ToBytes ==
  /\ call.op = "none"
  /\ \E x \in ConvFloats : \E up \in { 0, 1 } :
       Called("f64_to_bytes", << x >>, f64_to_bytes(x, up))

\* f64_from_bytes of the bytes that f64_to_bytes has returned
F64FromBytesWritten ==
  /\ call.op = "f64_to_bytes"
  /\ call' = [op |-> "f64_from_bytes", args |-> << call.out >>, out |-> f64_from_bytes(call.out)]
  /\ UNCHANGED << tvars, codec, reader, reactor >>

F64FromBytes ==
  /\ call.op = "none"
  /\ \E v \in ConvBytes : Called("f64_from_bytes", << v >>, f64_from_bytes(v))

ConvInit == StartWith(<<>>, 0)

ConvNext == F64ToBytes \/ F64FromBytesWritten \/ F64FromBytes

ConvSpec == ConvInit /\ [][ConvNext]_vars


\* ------------------------------------------------------------ EpollReactor
\* ReactorAction::Add(reader) for a reader with the descriptor fd,
\* ReactorAction::Remove(fd) and ReactorAction::Stop
ActionAdd(fd) == [tag |-> "Add", fd |-> fd]

ActionRemove(fd) == [tag |-> "Remove", fd |-> fd]

ActionStop == [tag |-> "Stop", fd |-> 0]

\* Reactor::add_reader: the reader is put in the map under its descriptor
\* (and the descriptor registered with epoll)
add_reader(r, fd) == [r EXCEPT !.readers = @ \cup { fd }]

\* Reactor::remove_reader
remove_reader(r, fd) == [r EXCEPT !.readers = @ \ { fd }]

\* Reactor::stop
stop(r) == [r EXCEPT !.run = FALSE]

\* one action of do_todos
do_todo(r, action) ==
  IF action.tag = "Add" THEN add_reader(r, action.fd)
  ELSE IF action.tag = "Remove" THEN remove_reader(r, action.fd)
  ELSE stop(r)

\* mutant: the actions are applied from the last to the first
RECURSIVE do_todos_reversed(_, _)
do_todos_reversed(r, todo) ==
  IF todo = <<>> THEN r
  ELSE do_todos_reversed(do_todo(r, todo[Len(todo)]), SubSeq(todo, 1, Len(todo) - 1))

\* do_todos(reactor, todo): for action in todo
RECURSIVE do_todos(_, _)
do_todos(r, todo) ==
  IF todo = <<>> THEN r ELSE do_todos(do_todo(r, Head(todo)), Tail(todo))

\* the descriptors of the readers: the listener and two connections
Fds == { 3, 4, 5 }

ReactorActions == { ActionAdd(fd) : fd \in Fds } \cup { ActionRemove(fd) : fd \in Fds } \cup { ActionStop }

\* what the run of a reader may return
TaskReturns == UNION { [1..n -> ReactorActions] : n \in 0..MaxTodo }

\* what the run of the scheduler may return
SchedulerReturns == { <<>> } \cup { << a >> : a \in ReactorActions }

\* what Scheduler::due may return: forever, now, and in a while
Dues == { -1, 0, 10000 }

\* main, or any owner of the reactor, calls add_reader before run
ReactorAddReader ==
  /\ reactor.pc = "new"
  /\ \E fd \in Fds : reactor' = add_reader(reactor, fd)
  /\ UNCHANGED << tvars, codec, call, reader >>

\* stop is called before run
ReactorStop ==
  /\ reactor.pc = "new"
  /\ reactor.run
  /\ reactor' = stop(reactor)
  /\ UNCHANGED << tvars, codec, call, reader >>

\* run is called: the first iteration begins with an empty todo
ReactorRun ==
  /\ reactor.pc = "new"
  /\ reactor' = [reactor EXCEPT !.pc = "wait", !.todo = <<>>]
  /\ UNCHANGED << tvars, codec, call, reader >>

\* lines 67-69, 74: epoll_wait(epoll_fd, timeout, 1) returns Ok: one event of
\* a registered descriptor or, when the timeout is not -1, none
EpollWait ==
  /\ reactor.pc = "wait"
  /\ \E timeout \in Dues :
       \E events \in { << fd >> : fd \in reactor.readers } \cup (IF timeout = -1 THEN {} ELSE { <<>> }) :
         reactor' = [reactor EXCEPT !.pc = "events", !.events = events]
  /\ UNCHANGED << tvars, codec, call, reader >>

\* lines 70-73: epoll_wait returns Err: run prints the error and returns
EpollWaitFails ==
  /\ reactor.pc = "wait"
  /\ reactor' = [reactor EXCEPT !.pc = "returned", !.failed = TRUE]
  /\ UNCHANGED << tvars, codec, call, reader >>

\* lines 75-81: the readers of the events are run and what they return is
\* added to todo
RunReaders ==
  /\ reactor.pc = "events"
  /\ IF reactor.events # <<>> /\ reactor.events[1] \in reactor.readers
     THEN \E actions \in TaskReturns :
            reactor' = [reactor EXCEPT !.pc = "scheduler", !.todo = @ \o actions, !.events = <<>>]
     ELSE reactor' = [reactor EXCEPT !.pc = "scheduler", !.events = <<>>]
  /\ UNCHANGED << tvars, codec, call, reader >>

\* lines 82-84: the scheduler is run if it is due
RunScheduler ==
  /\ reactor.pc = "scheduler"
  /\ \E due \in Dues :
       IF due = 0
       THEN \E actions \in SchedulerReturns :
              reactor' = [reactor EXCEPT !.pc = "todos", !.todo = @ \o actions]
       ELSE reactor' = [reactor EXCEPT !.pc = "todos"]
  /\ UNCHANGED << tvars, codec, call, reader >>

\* lines 87-90 on the reactor r whose todo has been applied: break, or the
\* next iteration with a new todo
loop_end(r) ==
  IF ~r.run \/ Cardinality(r.readers) = 0
  THEN [r EXCEPT !.pc = "returned", !.todo = <<>>]
  ELSE [r EXCEPT !.pc = "wait", !.todo = <<>>]

\* lines 87-90: do_todos, then the end of the iteration
DoTodos ==
  /\ reactor.pc = "todos"
  /\ reactor' = loop_end(do_todos(reactor, reactor.todo))
  /\ UNCHANGED << tvars, codec, call, reader >>

ReactorInit == StartWith(<<>>, 0)

ReactorNext ==
  \/ ReactorAddReader
  \/ ReactorStop
  \/ ReactorRun
  \/ EpollWait
  \/ EpollWaitFails
  \/ RunReaders
  \/ RunScheduler
  \/ DoTodos

ReactorSpec == ReactorInit /\ [][ReactorNext]_vars


\* ==================================================================== claims
\* the step is a call of op that returns in the same step
Returns(op) == pc = "idle" /\ nops' = nops + 1 /\ pc' = "idle" /\ ret'.op = op

\* the record insert(k, v) / remove(k) stands for in the log
RecordOf(r) ==
  encode_i64(r.key[1]) \o (IF r.op = "insert" THEN encode_bytes(r.value[1]) ELSE << 255 >>)

\* C1: whenever the table is writable with its handle on its own path, the
\* bytes of the log decode, record by record with the last record of a key
\* winning and a Null value deleting the key, to exactly the in-memory index.
C1_DurableCorrespondence ==
  (pc = "idle" /\ file # None /\ file[1].path = Home) =>
     LET replay == decode_map(files[Home])
     IN  replay.res = "Ok" /\ replay.data = map

\* C1 witness: a writable table on its own path after an insert, a compact of
\* that path and a remove, with a live key and a tombstone in the log
C1_Witness ==
  /\ pc = "idle" /\ file # None /\ file[1].path = Home
  /\ cp.path = Home /\ ret.op = "remove" /\ ret.val.tag = "Ok"
  /\ map # <<>>
  /\ Len(files[Home]) > Len(encode_map(map))

\* C2: a successful insert(k, v) leaves the log equal to the old log followed
\* by encode(k) ++ encode(v), a successful remove(k) equal to the old log
\* followed by encode(k) ++ [0xFF]; no other file changes.
C2_AppendOnly ==
  [][ \A op \in {"insert", "remove"} :
        (Returns(op) /\ ret'.val.tag = "Ok") =>
           /\ files'[file[1].path] = files[file[1].path] \o RecordOf(ret')
           /\ \A x \in DOMAIN files \ {file[1].path} : FileAt(files', x) = FileAt(files, x)
           /\ DOMAIN files' = DOMAIN files ]_vars

\* C2 witness: a log of two records, the second appended by a successful remove
C2_Witness ==
  /\ pc = "idle" /\ ret.op = "remove" /\ ret.val.tag = "Ok"
  /\ \E k \in Keys, v \in Values :
       files[Home] = encode_i64(k) \o encode_bytes(v) \o encode_i64(ret.key[1]) \o << 255 >>

\* the mathematical value of an i64 as three digits, most significant first:
\* the signed top 16 bits, then two unsigned 24-bit digits
I64Num(k) ==
  << (IF k[1] < 128 THEN k[1] ELSE k[1] - 256) * 256 + k[2],
     (k[3] * 256 + k[4]) * 256 + k[5],
     (k[6] * 256 + k[7]) * 256 + k[8] >>

\* a < b for two such values
NumLess(a, b) ==
  \/ a[1] < b[1]
  \/ a[1] = b[1] /\ a[2] < b[2]
  \/ a[1] = b[1] /\ a[2] = b[2] /\ a[3] < b[3]

\* the (key, value) pairs of m, every key once
IsListing(out, m) ==
  /\ Len(out) = Cardinality(DOMAIN m)
  /\ { out[i][1] : i \in 1..Len(out) } = DOMAIN m
  /\ \A i \in 1..Len(out) : out[i][2] = m[out[i][1]]

\* C3: open leaves Table.file None, and on a table without a handle insert,
\* remove and compact return NotWritable, change no file and leave the index
\* as it is, while get and iteration return what the index holds.
C3_ReadOnly ==
  /\ []((ret.op = "open" /\ ret.val.tag = "Ok") => (pc = "idle" /\ file = None))
  /\ [][ (pc = "idle" /\ file = None /\ nops' = nops + 1) =>
           /\ files' = files /\ file' = None
           /\ ret'.op \in {"insert", "remove", "compact", "get", "iter", "into_iter"}
           /\ ret'.op # "into_iter" => (map' = map /\ pc' = "idle")
           /\ ret'.op \in {"insert", "remove", "compact"} => ret'.val = Err("NotWritable")
           /\ ret'.op = "get" =>
                ret'.val = Ok(IF ret'.key[1] \in DOMAIN map THEN << map[ret'.key[1]] >> ELSE <<>>)
           /\ ret'.op \in {"iter", "into_iter"} =>
                (ret'.val.tag = "Ok" /\ IsListing(ret'.val.out, map)) ]_vars

\* C3 witness: a table opened read-only on a log that holds a key has refused
\* a mutation
C3_Witness ==
  /\ pc = "idle" /\ file = None /\ map # <<>>
  /\ ret.op \in {"insert", "remove", "compact"} /\ ret.val = Err("NotWritable")
  /\ decode_map(files[Home]).data = map

\* the file bytes are the records of m, each key once, in ascending key order
IsCanonical(bytes, m) ==
  \E n \in {Cardinality(DOMAIN m)} :
    \E ks \in [1..n -> DOMAIN m] :
      /\ \A i \in 1..(n - 1) : NumLess(I64Num(ks[i]), I64Num(ks[i + 1]))
      /\ bytes = Concat([i \in 1..n |-> encode_i64(ks[i]) \o encode_bytes(m[ks[i]])])

\* C4: when compact(path) has returned Ok, the file at path is the records
\* encode(k) ++ encode(v) of the index, each key once, in ascending key order,
\* and loading it gives the same index with discarded = 0.
C4_CompactCanonical ==
  (ret.op = "compact" /\ ret.val.tag = "Ok") =>
     /\ Exists(files, ret.path)
     /\ IsCanonical(files[ret.path], map)
     /\ LET reload == decode_map(files[ret.path])
        IN  reload.res = "Ok" /\ reload.data = map /\ reload.stats.discarded = 0

\* C4 witness: a successful compact of a two-key index whose log was not in
\* key order
C4_Witness ==
  /\ ret.op = "compact" /\ ret.val.tag = "Ok"
  /\ Cardinality(DOMAIN map) = 2
  /\ cp.old # None /\ cp.old[1] # files[ret.path]

\* compact has been called and rename has not yet succeeded
BeforeRename == pc \in {"compact_create", "compact_write", "compact_rename"}

RenameDone == pc = "compact_rename" /\ pc' = "compact_reopen"

\* C5: from the call of compact(path) until rename succeeds, and when compact
\* returns an error before the rename, the file at path is what it was when
\* compact was called, and no file other than path~ is created or changed.
C5_OldLogAuthoritative ==
  /\ [](BeforeRename => FileAt(files, cp.path) = cp.old)
  /\ [][ (BeforeRename /\ ~RenameDone) =>
           /\ FileAt(files', cp.path) = cp.old
           /\ \A x \in (DOMAIN files \cup DOMAIN files') \ {TmpPath(cp.path)} :
                FileAt(files', x) = FileAt(files, x) ]_vars

\* C5 witness: compact has returned an error from its write step, leaving a
\* temporary file, with the log still holding a record
C5_Witness ==
  /\ pc = "idle" /\ ret.op = "compact" /\ ret.val = Err("IOError")
  /\ Exists(files, TmpPath(cp.path)) /\ ~Exists(files, "q")
  /\ cp.path = Home /\ cp.old = Some(files[Home]) /\ files[Home] # <<>>
  /\ files[TmpPath(cp.path)] # <<>>

\* C6 as claimed: the step after a successful rename returns Ok(()) from compact.
C6_NoFailureAfterRename ==
  [][ pc = "compact_reopen" => (ret'.op = "compact" /\ ret'.val.tag = "Ok") ]_vars

\* C6 amended: after a successful rename compact changes no file and the file
\* at path already is the compacted log; compact returns Ok(()) with the
\* handle reinstalled in append mode when the reopen succeeds, and IOError
\* with the table left without a handle when the reopen fails.
C6_AfterRename ==
  [][ pc = "compact_reopen" =>
        /\ files' = files /\ map' = map /\ pc' = "idle"
        /\ IsCanonical(files[cp.path], map)
        /\ ret'.op = "compact" /\ ret'.path = cp.path
        /\ \/ ret'.val = Ok(<<>>) /\ file' = Some(Handle(cp.path, 0, TRUE))
           \/ ret'.val = Err("IOError") /\ file' = None ]_vars

\* C6 witness: compact("q") has renamed q~ to q and then failed to reopen q
C6_Witness ==
  /\ pc = "idle" /\ ret.op = "compact" /\ ret.path = "q" /\ ret.val = Err("IOError")
  /\ Exists(files, "q") /\ ~Exists(files, "q~")
  /\ file = None /\ map # <<>>

\* C7: when compact(path) returns Ok and the call before it was a compact of
\* the same path that returned Ok, the file at path, the index and the handle
\* are what they were when the second call was made.
C7_CompactIdempotent ==
  ( /\ pc = "idle" /\ ret.op = "compact" /\ ret.val.tag = "Ok"
    /\ cp.prev.op = "compact" /\ cp.prev.val.tag = "Ok" /\ cp.prev.path = cp.path ) =>
     /\ FileAt(files, cp.path) = cp.old
     /\ map = cp.map
     /\ file = cp.file /\ file # None

\* C7 witness: two successful compacts of the same path in a row on a
\* non-empty index
C7_Witness ==
  /\ ret.op = "compact" /\ ret.val.tag = "Ok"
  /\ cp.prev.op = "compact" /\ cp.prev.val.tag = "Ok" /\ cp.prev.path = cp.path
  /\ map # <<>> /\ pc = "idle"

\* the bytes of the file from offset pos on start with r
HasRecordAt(bytes, pos, r) ==
  Len(bytes) - pos >= Len(r) /\ Slice(bytes, pos, Len(r)) = r

\* the load of the file at Home has returned Ok
Loaded == pc = "idle" /\ ret.op \in {"open", "open_rw"} /\ ret.val.tag = "Ok"

\* C8: a load step at a value record (k, v) sets k to v in the map being
\* built; it adds keysize + encode_size(old value) to discarded when k was
\* there and nothing when it was not.  The log of insert(5, "Tom"),
\* insert(5, "Harry") loads with discarded = 5.
C8_ReplaceAccounting ==
  /\ [][ \A k \in Keys, v \in Values :
           (pc = "load" /\ HasRecordAt(files[ld.path], ld.pos, encode_i64(k) \o encode_bytes(v))) =>
              /\ pc' = "load"
              /\ ld'.data = [x \in DOMAIN ld.data \cup {k} |-> IF x = k THEN v ELSE ld.data[x]]
              /\ ld'.stats.discarded = ld.stats.discarded +
                   (IF k \in DOMAIN ld.data
                    THEN Len(encode_i64(k)) + encode_size_bytes(ld.data[k]) ELSE 0) ]_vars
  /\ []((Loaded /\ files[Home] = << 5, 3, 84, 111, 109, 5, 5, 72, 97, 114, 114, 121 >>) =>
          (stats.discarded = 5 /\ map = [x \in {I64(5)} |-> Harry]))

\* C8 witness: the log of insert(5, "Tom"), insert(5, "Harry") has been loaded
C8_Witness ==
  /\ Loaded
  /\ files[Home] = << 5, 3, 84, 111, 109, 5, 5, 72, 97, 114, 114, 121 >>
  /\ stats.read = 12

\* the log is the record of insert(k, v) followed by the tombstone of k
InsertThenRemove(bytes, k, v) ==
  bytes = encode_i64(k) \o encode_bytes(v) \o encode_i64(k) \o << 255 >>

\* C9: a load step at a tombstone (k, Null) removes k from the map being
\* built and adds keysize + 1 to discarded, and keysize + encode_size(old
\* value) more when k was there.  The log of insert(k, v), remove(k) loads to
\* the empty index with discarded at least the size of both records.
C9_TombstoneAccounting ==
  /\ [][ \A k \in Keys :
           (pc = "load" /\ HasRecordAt(files[ld.path], ld.pos, encode_i64(k) \o << 255 >>)) =>
              /\ pc' = "load"
              /\ ld'.data = [x \in DOMAIN ld.data \ {k} |-> ld.data[x]]
              /\ ld'.stats.discarded = ld.stats.discarded + Len(encode_i64(k)) + 1 +
                   (IF k \in DOMAIN ld.data
                    THEN Len(encode_i64(k)) + encode_size_bytes(ld.data[k]) ELSE 0) ]_vars
  /\ [](\A k \in Keys, v \in Values :
          (Loaded /\ InsertThenRemove(files[Home], k, v)) =>
             /\ map = <<>>
             /\ stats.discarded >=
                  encode_size_i64(k) + encode_size_bytes(v) + encode_size_i64(k) + 1)

\* C9 witness: the log of an insert of a 9-byte key and its remove has been loaded
C9_Witness ==
  /\ Loaded /\ map = <<>>
  /\ \E v \in Values : InsertThenRemove(files[Home], I64(32768), v)
  /\ stats.discarded = stats.read

\* the records insert and remove write for the keys and values of the model
Records ==
  { encode_i64(k) \o encode_bytes(v) : k \in Keys, v \in Values } \cup
  { encode_i64(k) \o << 255 >> : k \in Keys }

\* bytes is zero or more records followed by a non-empty proper prefix of a record
RECURSIVE EndsPartial(_)
EndsPartial(bytes) ==
  /\ bytes # <<>>
  /\ \E r \in Records :
       \/ Len(bytes) < Len(r) /\ bytes = SubSeq(r, 1, Len(bytes))
       \/ /\ Len(bytes) > Len(r)
          /\ SubSeq(bytes, 1, Len(r)) = r
          /\ EndsPartial(SubSeq(bytes, Len(r) + 1, Len(bytes)))

\* open / open_rw of Home has returned, and not because an I/O call failed
LoadReturned ==
  pc \in {"none", "idle"} /\ ret.op \in {"open", "open_rw"} /\ ret.val.err # "IOError"
  /\ ret.val.kind # "IOError"

\* C10: the load of a file that ends in a partial record returns
\* DecodeError(PartialRead).
C10_PartialRecord ==
  (LoadReturned /\ Exists(files, Home) /\ EndsPartial(files[Home])) =>
     ret.val = ErrDecode("PartialRead")

\* the length of the key encoding that starts with byte b0
KeyLen(b0) == IF b0 = 128 THEN 9 ELSE IF b0 = 129 THEN 3 ELSE 1

\* The length of the value encoding (length prefix and payload, or the one
\* byte 0xFF) that starts at offset pos, and -1 when the length prefix itself
\* is cut short or announces more than 2^24 bytes.
ValueLen(bytes, pos) ==
  LET t     == bytes[pos + 1]
      avail == Len(bytes) - pos
  IN  IF t < 253 THEN 1 + t
      ELSE IF t = 255 THEN 1
      ELSE IF t = 253
      THEN IF avail < 3 THEN -1 ELSE 3 + 256 * bytes[pos + 2] + bytes[pos + 3]
      ELSE IF avail < 9 THEN -1
      ELSE IF \E i \in 2..6 : bytes[pos + i] # 0 THEN -1
      ELSE 9 + (bytes[pos + 7] * 256 + bytes[pos + 8]) * 256 + bytes[pos + 9]

\* bytes from offset pos on is zero or more complete records: the end of the
\* file falls on a key boundary
RECURSIVE IsLogFrom(_, _)
IsLogFrom(bytes, pos) ==
  \/ pos = Len(bytes)
  \/ /\ pos < Len(bytes)
     /\ LET vpos == pos + KeyLen(bytes[pos + 1]) IN
        /\ vpos < Len(bytes)
        /\ LET vl == ValueLen(bytes, vpos) IN
           /\ vl >= 1
           /\ vpos + vl <= Len(bytes)
           /\ IsLogFrom(bytes, vpos + vl)

\* open / open_rw of the file at Home is over
LoadEnded == ret.op \in {"open", "open_rw"} /\ pc \in {"none", "idle", "panic"}

\* C11: open and open_rw return Ok, with a Table, exactly when the file is a
\* concatenation of complete records, and return DecodeError, with no Table,
\* for every other content.
C11_OpenExactly ==
  LoadEnded =>
     IF IsLogFrom(files[Home], 0)
     THEN pc = "idle" /\ ret.val.tag = "Ok"
     ELSE pc = "none" /\ ret.val.err = "DecodeError"

\* what holds of C11: the same, apart from a file whose first incomplete
\* record announces a value length above isize::MAX, on which the load panics
C11_OpenExactlyOrPanics ==
  LoadEnded =>
     IF IsLogFrom(files[Home], 0)
     THEN pc = "idle" /\ ret.val.tag = "Ok"
     ELSE \/ pc = "none" /\ ret.val.err = "DecodeError"
          \/ pc = "panic" /\ ret.val = Panic

\* get(k) on the index m
Lookup(m, k) == IF k \in DOMAIN m THEN << m[k] >> ELSE <<>>

\* C12: on a writable table every successful call keeps get(k) equal to the
\* value of the most recent insert(k, _) that no remove(k) follows: get(k)
\* returns the index entry of k and changes nothing; insert(k, v) returns what
\* get(k) returned before it, makes get(k) Some(v) and leaves every other
\* key as it was; remove(k) returns what get(k) returned before it, makes
\* get(k) None and leaves every other key as it was.
C12_GetSemantics ==
  [][ (\E op \in {"get", "insert", "remove"} : Returns(op) /\ file # None /\ ret'.val.tag = "Ok") =>
        LET k == ret'.key[1] IN
        /\ ret'.val.out = Lookup(map, k)
        /\ \A x \in Keys \ {k} : Lookup(map', x) = Lookup(map, x)
        /\ ret'.op = "get" => Lookup(map', k) = Lookup(map, k)
        /\ ret'.op = "insert" => Lookup(map', k) = ret'.value
        /\ ret'.op = "remove" => Lookup(map', k) = <<>> ]_vars

\* C12 witness: insert(k, v), insert(k, w) with w # v, then get(k) has
\* returned Some(w)
C12_Witness ==
  /\ pc = "idle" /\ file # None /\ ret.op = "get"
  /\ \E v \in Values, w \in Values \ {<<>>} :
       /\ v # w
       /\ ret.val = Ok(<< w >>)
       /\ files[Home] = encode_i64(ret.key[1]) \o encode_bytes(v)
                          \o encode_i64(ret.key[1]) \o encode_bytes(w)

\* out is in strictly ascending key order
IsAscending(out) ==
  \A i \in 1..(Len(out) - 1) : NumLess(I64Num(out[i][1]), I64Num(out[i + 1][1]))

\* C13: iteration, by reference and by value, yields every key of the index
\* once, with its value, in strictly ascending key order.
C13_IterationOrder ==
  [][ (nops' = nops + 1 /\ ret'.op \in {"iter", "into_iter"}) =>
        /\ ret'.val.tag = "Ok"
        /\ IsListing(ret'.val.out, map)
        /\ IsAscending(ret'.val.out) ]_vars

\* C13 witness: an iteration by value over two keys that were inserted in
\* another order than the key order
C13_Witness ==
  /\ ret.op = "into_iter" /\ pc = "none"
  /\ Len(ret.val.out) = 2
  /\ decode_i64(files[Home], 0).val # ret.val.out[1][1]

\* C14: open_rw creates the file when it is absent, and on an absent or
\* 0-byte file it returns Ok with an empty index, statistics read = 0 and
\* discarded = 0, and a file handle (the table is writable).
C14_EmptyOpen ==
  [][ /\ (pc = "none" /\ pc' = "load" /\ ld'.rw) =>
           /\ Exists(files', ld'.path)
           /\ IF Exists(files, ld'.path) THEN files' = files
              ELSE files' = [x \in DOMAIN files \cup {ld'.path} |->
                               IF x = ld'.path THEN <<>> ELSE files[x]]
      /\ (pc = "load" /\ ld.rw /\ files[ld.path] = <<>>) =>
           /\ pc' = "idle" /\ ret'.op = "open_rw" /\ ret'.val.tag = "Ok"
           /\ map' = <<>> /\ stats' = [read |-> 0, discarded |-> 0]
           /\ file' # None /\ file'[1].path = ld.path
           /\ files' = files ]_vars

\* C14 witness: open_rw has returned a writable empty table on a 0-byte file
C14_Witness ==
  /\ pc = "idle" /\ ret.op = "open_rw" /\ ret.val.tag = "Ok"
  /\ files[Home] = <<>> /\ map = <<>> /\ file # None /\ stats.read = 0

\* the types that have an encoder and a decoder of their own
CodecTypes == { "u64", "i64", "bytes" }

\* the reader is over the whole buffer
Whole == codec.src = << codec.buf >>

\* the bytes encode wrote for the i-th value
Encoding(i) == SubSeq(codec.buf, codec.items[i].from + 1, codec.items[i].to)

\* C15: for every u64, i64 and byte string x, the decoder of its type, given
\* a reader over the bytes of encode(x), returns Ok(x).
C15_RoundTrip ==
  ( /\ Whole /\ Len(codec.items) = 1 /\ codec.items[1].ty \in CodecTypes
    /\ Len(codec.decs) >= 1 ) =>
     /\ codec.decs[1].res = "Ok"
     /\ codec.decs[1].val = codec.items[1].val

\* C15 witness: the round trip of -32769, which takes the 9-byte form
C15_Witness ==
  /\ Whole /\ Len(codec.items) = 1 /\ Len(codec.decs) >= 1
  /\ codec.items[1].ty = "i64" /\ codec.items[1].val = I64(-32769)
  /\ codec.decs[1].val = << 255, 255, 255, 255, 255, 255, 127, 255 >>

\* C16: for every u64, i64, Option<u64>, byte string and map, encode_size
\* is the number of bytes encode writes.
C16_SizeAgreement ==
  /\ \A i \in 1..Len(codec.items) :
       /\ codec.items[i].size = codec.items[i].to - codec.items[i].from
       /\ codec.items[i].from = IF i = 1 THEN 0 ELSE codec.items[i - 1].to
  /\ codec.items # <<>> => codec.items[Len(codec.items)].to = Len(codec.buf)

\* C16 witness: a map of two keys, one with a 253-byte value, and None have
\* been encoded
C16_Witness ==
  /\ Len(codec.items) = 2
  /\ codec.items[1].ty = "map" /\ Len(codec.items[1].val) = 3
  /\ codec.items[2].ty = "opt" /\ codec.items[2].val = <<>>
  /\ Len(codec.buf) = 4 + 265 + 1

\* C17: from a reader over encode(a) ++ encode(b), a and b of the types u64,
\* i64 and byte string, the first decode returns a, the second returns b and
\* ends at the end of the buffer, and a third decode returns EOF.
C17_SelfDelimiting ==
  ( /\ Whole /\ Len(codec.items) = 2
    /\ codec.items[1].ty \in CodecTypes /\ codec.items[2].ty \in CodecTypes ) =>
     /\ \A j \in 1..Min(2, Len(codec.decs)) :
          /\ codec.decs[j].res = "Ok"
          /\ codec.decs[j].val = codec.items[j].val
          /\ codec.decs[j].at = codec.items[j].from
          /\ codec.decs[j].at + codec.decs[j].pulled = codec.items[j].to
     /\ (Len(codec.decs) >= 2 /\ codec.decs[2].res = "Ok") => codec.pos >= Len(codec.buf)
     /\ (Len(codec.decs) = 3 /\ codec.decs[3].ty \in CodecTypes) =>
          (codec.decs[3].res = "EOF" /\ codec.decs[3].pulled = 0)

\* C17 witness: a 253-byte string and a 3-byte i64 have been decoded, and a
\* third decode has returned EOF
C17_Witness ==
  /\ Whole /\ Len(codec.items) = 2 /\ Len(codec.decs) = 3
  /\ codec.items[1].ty = "bytes" /\ Len(codec.items[1].val) = 253
  /\ codec.items[2].ty = "i64" /\ codec.items[2].size = 3
  /\ codec.decs[3].res = "EOF"

\* the u64 encoding as the layout describes it (n below 2^31)
U64Layout(n) ==
  IF n < 253 THEN << n >>
  ELSE IF n < 65536 THEN << 253, n \div 256, n % 256 >>
  ELSE << 254 >> \o [i \in 1..8 |-> IF i < 5 THEN 0 ELSE (n \div (256 ^ (8 - i))) % 256]

\* C18: a u64 below 0xFD is encoded as the byte itself, one below 0x10000 as
\* 0xFD and two bytes, any other as 0xFE and eight bytes, big-endian; the
\* encoding never starts with 0xFF, None is encoded as the byte 0xFF, and the
\* u64 decoder returns Null on a leading 0xFF.
C18_U64Layout ==
  /\ \A i \in 1..Len(codec.items) :
       /\ codec.items[i].ty = "u64" =>
            (Encoding(i) = U64Layout(codec.items[i].val[1]) /\ Encoding(i)[1] # 255)
       /\ codec.items[i].ty = "opt" =>
            Encoding(i) = IF codec.items[i].val = <<>> THEN << 255 >>
                          ELSE U64Layout(codec.items[i].val[1])
  /\ \A j \in 1..Len(codec.decs) :
       ( /\ codec.decs[j].ty = "u64"
         /\ codec.decs[j].at < Len(codec.src[1])
         /\ codec.src[1][codec.decs[j].at + 1] = 255 ) =>
          (codec.decs[j].res = "Null" /\ codec.decs[j].pulled = 1)

\* C18 witness: 65536 and None have been encoded, and the u64 decoder has
\* returned Null at the 0xFF
C18_Witness ==
  /\ Whole /\ Len(codec.items) = 2 /\ Len(codec.decs) >= 2
  /\ codec.items[1].ty = "u64" /\ codec.items[1].val = << 65536 >>
  /\ codec.items[2].ty = "opt" /\ codec.items[2].val = <<>>
  /\ codec.decs[2].res = "Null"

\* a < k < b, a <= k < b for the i64 k and small numbers a, b
Between(a, k, b) == NumLess(I64Num(I64(a)), I64Num(k)) /\ NumLess(I64Num(k), I64Num(I64(b)))

FromTo(a, k, b) == k = I64(a) \/ Between(a, k, b)

\* the i64 encoding as the layout describes it
I64Layout(k) ==
  IF Between(-127, k, 128) THEN << k[8] >>
  ELSE IF FromTo(-32768, k, 32768) THEN << 129, k[7], k[8] >>
  ELSE << 128 >> \o k

\* C19: an i64 strictly between -0x7F and 0x80 is encoded as one byte, any
\* other from -0x8000 to 0x7FFF as 0x81 and two bytes, any other as 0x80 and
\* eight bytes, two's complement big-endian; the first byte gives the length
\* of the encoding; -0x7F is 81 FF 81 and -0x80 is 81 FF 80.
C19_I64Layout ==
  \A i \in 1..Len(codec.items) :
    codec.items[i].ty = "i64" =>
      /\ Encoding(i) = I64Layout(codec.items[i].val)
      /\ Len(Encoding(i)) = KeyLen(Encoding(i)[1])
      /\ Len(Encoding(i)) = 1 => Encoding(i)[1] \notin { 128, 129 }
      /\ codec.items[i].val = I64(-127) => Encoding(i) = << 129, 255, 129 >>
      /\ codec.items[i].val = I64(-128) => Encoding(i) = << 129, 255, 128 >>

\* C19 witness: -0x7F and -0x7E have been encoded, in three bytes and in one
C19_Witness ==
  /\ Len(codec.items) = 2
  /\ codec.items[1].ty = "i64" /\ codec.items[1].val = I64(-127)
  /\ codec.items[2].ty = "i64" /\ codec.items[2].val = I64(-126)
  /\ Len(codec.buf) = 4

\* C20: a u64, i64 or byte-string decoder given a reader over a proper
\* prefix of an encoding of its type returns EOF, with stats.read as it was,
\* when the prefix is empty and PartialRead when it is not; whatever a decoder
\* returns, it has added to stats.read the number of bytes it took from the
\* reader.
C20_DecoderFailure ==
  /\ ( /\ Len(codec.items) = 1 /\ codec.items[1].ty \in CodecTypes
       /\ codec.src # <<>> /\ ~Whole /\ Len(codec.decs) >= 1 ) =>
        /\ codec.decs[1].res = IF codec.src[1] = <<>> THEN "EOF" ELSE "PartialRead"
        /\ codec.src[1] = <<>> => codec.decs[1].read = 0
  /\ \A j \in 1..Len(codec.decs) :
       codec.decs[j].ty \in CodecTypes => codec.decs[j].read = codec.decs[j].pulled

\* C20 witness: the byte-string decoder has been given the first two bytes of
\* the encoding of "Tom"
C20_Witness ==
  /\ Len(codec.items) = 1 /\ codec.items[1].ty = "bytes" /\ codec.items[1].val = Tom
  /\ codec.src = << << 3, 84 >> >>
  /\ Len(codec.decs) >= 1 /\ codec.decs[1].res = "PartialRead" /\ codec.decs[1].read = 2

\* Ordering::reverse
reverse(o) == IF o = "Less" THEN "Greater" ELSE IF o = "Greater" THEN "Less" ELSE o

\* C21: cmp_if and cmp_fi are adjoint: for every i64 n and every f64 x, NaN
\* and the infinities included, cmp_if(n, x) is the reverse of cmp_fi(x, n).
C21_Adjoint ==
  /\ call.op = "cmp_if" => call.out = reverse(cmp_fi(call.args[2], call.args[1]))
  /\ call.op = "cmp_fi" => call.out = reverse(cmp_if(call.args[2], call.args[1]))

\* cmp_fi(1.0, -2^53): the branch that looks at the sign of n alone
C21_Witness ==
  /\ call.op = "cmp_fi"
  /\ call.args = << F64(FALSE, MagPow2(0)), i64_neg(I64Pow2(53)) >>
  /\ call.out = "Greater"

\* the order of the mathematical values of the i64 n and the non-NaN f64 x
ExactOrder(n, x) ==
  IF x.kind = "inf" THEN (IF x.neg THEN "Greater" ELSE "Less")
  ELSE IF MagOfU64(i64_magnitude(n)) = x.mag /\ (IsZero(x) \/ (n[1] >= 128) = x.neg) THEN "Equal"
  ELSE IF n[1] >= 128 /\ ~x.neg THEN "Less"
  ELSE IF n[1] < 128 /\ x.neg THEN "Greater"
  ELSE IF (n[1] >= 128) = LexLess(x.mag, MagOfU64(i64_magnitude(n))) THEN "Less"
  ELSE "Greater"

\* C22: integer/float comparison is exact: for every i64 n and every non-NaN
\* f64 x, finite or infinite, cmp_if(n, x) is the order of the mathematical
\* values of n and x, also when |n| >= 2^53 or |x| >= 2^63.
C22_Exact ==
  (call.op = "cmp_if" /\ ~is_nan(call.args[2])) =>
     call.out = ExactOrder(call.args[1], call.args[2])

\* n = 2^62 and x = 2^60 give Greater
C22_Witness ==
  /\ call.op = "cmp_if"
  /\ call.args = << I64Pow2(62), F64(FALSE, MagPow2(60)) >>
  /\ call.out = "Greater"

\* C23: NaN is below every non-NaN number and equal to NaN in all three
\* primitives: cmp_ff(NaN, NaN) = Equal, cmp_ff(NaN, y) = Less and
\* cmp_ff(y, NaN) = Greater for non-NaN y, cmp_if(n, NaN) = Greater and
\* cmp_fi(NaN, n) = Less for every i64 n.
C23_NaNPolicy ==
  /\ (call.op = "cmp_ff" /\ is_nan(call.args[1])) =>
        call.out = IF is_nan(call.args[2]) THEN "Equal" ELSE "Less"
  /\ (call.op = "cmp_ff" /\ ~is_nan(call.args[1]) /\ is_nan(call.args[2])) =>
        call.out = "Greater"
  /\ (call.op = "cmp_if" /\ is_nan(call.args[2])) => call.out = "Greater"
  /\ (call.op = "cmp_fi" /\ is_nan(call.args[1])) => call.out = "Less"

C23_Witness ==
  call.op = "cmp_ff" /\ call.args = << NaN, NaN >> /\ call.out = "Equal"

\* C24: JSON::cmp is a total order up to its own equality: cmp(a, a) = Equal,
\* cmp(a, b) is the reverse of cmp(b, a), and cmp(a, b) != Greater and
\* cmp(b, c) != Greater imply cmp(a, c) != Greater, for mixed Int / Float
\* values, NaN and nested arrays and objects too.
C24_TotalOrder ==
  call.op = "cmp" =>
     /\ call.args[1] = call.args[2] => call.out = "Equal"
     /\ call.out = reverse(json_cmp(call.args[2], call.args[1]))
     /\ call.out # "Greater" =>
          \A c \in JsonVals :
             json_cmp(call.args[2], c) # "Greater" => json_cmp(call.args[1], c) # "Greater"

\* Int(2^53 + 1) against Float(2^53), which n as f64 would make equal
C24_Witness ==
  /\ call.op = "cmp"
  /\ call.args = << JSONInt(BitOr(I64Pow2(53), I64(1))), JSONFloat(F64(FALSE, MagPow2(53))) >>
  /\ call.out = "Greater"

\* the variant classes, Int and Float being one
ClassOf(json) ==
  CASE json.t = "Null" -> 0
    [] json.t = "Bool" -> 1
    [] json.t \in { "Int", "Float" } -> 2
    [] json.t = "Binary" -> 3
    [] json.t = "String" -> 4
    [] json.t = "Array" -> 5
    [] json.t = "Object" -> 6
    [] json.t = "Infinity" -> 7

\* the order of two numbers by value, NaN below every number
NumberOrder(a, b) ==
  IF a.t = "Int" /\ b.t = "Int" THEN i64_cmp(a.n, b.n)
  ELSE IF a.t = "Int" THEN (IF is_nan(b.x) THEN "Greater" ELSE ExactOrder(a.n, b.x))
  ELSE IF b.t = "Int" THEN (IF is_nan(a.x) THEN "Less" ELSE reverse(ExactOrder(b.n, a.x)))
  ELSE IF is_nan(a.x) \/ is_nan(b.x)
       THEN (IF is_nan(a.x) /\ is_nan(b.x) THEN "Equal" ELSE IF is_nan(a.x) THEN "Less" ELSE "Greater")
  ELSE IF f64_lt(a.x, b.x) THEN "Less" ELSE IF f64_lt(b.x, a.x) THEN "Greater" ELSE "Equal"

\* C25: values of different variant classes compare by class alone, in the
\* order Null < Bool < (Int or Float) < Binary < String < Array < Object <
\* Infinity, whatever their contents; Int and Float share one class and
\* compare numerically.
C25_ClassOrder ==
  call.op = "cmp" =>
     /\ ClassOf(call.args[1]) < ClassOf(call.args[2]) => call.out = "Less"
     /\ ClassOf(call.args[1]) > ClassOf(call.args[2]) => call.out = "Greater"
     /\ (ClassOf(call.args[1]) = 2 /\ ClassOf(call.args[2]) = 2) =>
          call.out = NumberOrder(call.args[1], call.args[2])

\* Float(NaN) < Int(0)
C25_Witness ==
  /\ call.op = "cmp"
  /\ call.args = << JSONFloat(NaN), JSONInt(I64(0)) >>
  /\ call.out = "Less"


\* C26: JSON text round trip: for every JSON value v, json_decode of
\* json_encode(v) returns Ok(w) with w equal to v under the JSON total order.
C26_RoundTrip ==
  [][(call.op = "json_encode" /\ call'.op = "json_decode")
       => (call'.out.tag = "Ok" /\ json_cmp(call'.out.val, call.args[1]) = "Equal")]_vars

\* C27: json_decode and json_decode_all return Ok or Err for every input
\* string and never panic, ill-formed numbers and strings included.
C27_NoPanic ==
  call.op \in { "json_decode", "json_decode_all" } => call.out.tag \in { "Ok", "Err" }

\* the grammar of the JSON text over tokens: the position after the value that
\* starts at pos, 0 when no value of the grammar starts there
\*   value  := number | string | identifier | array | object
\*   array  := '[' (value (',' value)*)? ']'
\*   object := '{' (string ':' value (',' string ':' value)*)? '}'
IsPunct(toks, pos, ch) ==
  pos >= 1 /\ pos <= Len(toks) /\ toks[pos].token = "Punctuation" /\ toks[pos].s = << ch >>

RECURSIVE GValue(_, _), GItems(_, _), GMember(_, _), GMembers(_, _)
GValue(toks, pos) ==
  IF pos < 1 \/ pos > Len(toks) THEN 0
  ELSE IF toks[pos].token # "Punctuation" THEN pos + 1
  ELSE IF IsPunct(toks, pos, 91)
       THEN (IF IsPunct(toks, pos + 1, 93) THEN pos + 2
             ELSE GItems(toks, GValue(toks, pos + 1)))
  ELSE IF IsPunct(toks, pos, 123)
       THEN (IF IsPunct(toks, pos + 1, 125) THEN pos + 2
             ELSE GMembers(toks, GMember(toks, pos + 1)))
  ELSE 0

\* after a value of an array: (',' value)* ']'
GItems(toks, pos) ==
  IF IsPunct(toks, pos, 93) THEN pos + 1
  ELSE IF IsPunct(toks, pos, 44) THEN GItems(toks, GValue(toks, pos + 1))
  ELSE 0

\* string ':' value
GMember(toks, pos) ==
  IF pos >= 1 /\ pos <= Len(toks) /\ toks[pos].token = "String" /\ IsPunct(toks, pos + 1, 58)
  THEN GValue(toks, pos + 2)
  ELSE 0

\* after a member of an object: (',' string ':' value)* '}'
GMembers(toks, pos) ==
  IF IsPunct(toks, pos, 125) THEN pos + 1
  ELSE IF IsPunct(toks, pos, 44) THEN GMembers(toks, GMember(toks, pos + 1))
  ELSE 0

\* C28: json_decode returns Ok only for input whose leading tokens form a
\* value of the grammar; an array or object with an ill-formed nested element
\* is an error.
C28_Grammar ==
  (call.op = "json_decode" /\ call.out.tag = "Ok")
    => GValue(json_tokens(call.args[1]), 1) # 0

\* the number of values of the grammar that the tokens from pos are made of,
\* -1 when they are not a sequence of complete values
RECURSIVE GCount(_, _)
GCount(toks, pos) ==
  IF pos = Len(toks) + 1 THEN 0
  ELSE IF GValue(toks, pos) = 0 \/ GCount(toks, GValue(toks, pos)) < 0 THEN 0 - 1
  ELSE 1 + GCount(toks, GValue(toks, pos))

\* s without its leading and trailing whitespace
RECURSIVE Trim(_)
Trim(s) ==
  IF s # <<>> /\ is_whitespace(s[1]) THEN Trim(Tail(s))
  ELSE IF s # <<>> /\ is_whitespace(s[Len(s)]) THEN Trim(SubSeq(s, 1, Len(s) - 1))
  ELSE s

\* C29: json_decode_all returns Ok(vs) exactly for a sequence of complete
\* values with optional whitespace around it, vs being those values in order:
\* Ok is only returned for complete values, one item each, and whitespace
\* before and after the text changes nothing.
C29_DecodeAll ==
  call.op = "json_decode_all" =>
    /\ call.out.tag = "Ok" =>
         GCount(json_tokens(Trim(call.args[1])), 1) = Len(call.out.vals)
    /\ call.out = json_decode_all(Trim(call.args[1]))


\* the buffer that the loop of a run starts on: the old buffer and the bytes read
RunInput == reader.buffer \o SubSeq(reader.stream, 1, Len(reader.stream) - Len(reader'.stream))

\* a run of the reader that read bytes, entered in state Begin
BeginRun ==
  /\ reader.conn = "open"
  /\ reader.state.tag = "Begin"
  /\ Len(reader'.stream) < Len(reader.stream)

\* in state Begin a decoded length n that the buffer does not yet hold leaves
\* ReadSize(n) and the buffer without the length prefix; EOF and PartialRead
\* leave state and buffer as they are
BeginDecodes(d) ==
  /\ (d.res = "Ok" /\ Len(RunInput) - d.nread < d.val)
       => /\ reader'.state = ReadSize(d.val)
          /\ reader'.buffer = split_off(RunInput, d.nread)
          /\ reader'.actions = <<>>
  /\ d.res \in { "EOF", "PartialRead" }
       => /\ reader'.state = Begin
          /\ reader'.buffer = RunInput
          /\ reader'.actions = <<>>

\* C30: in state Begin a successful U64 decode of the buffer head moves to
\* ReadSize(n) and splices out exactly the length prefix; EOF and PartialRead
\* leave state and buffer unchanged; any other decode error (a leading 0xFF)
\* makes run return a Remove action for the reader.
C30_BeginStep ==
  [][BeginRun =>
       /\ BeginDecodes(decode_u64(RunInput, 0))
       /\ decode_u64(RunInput, 0).res = "Null" => (\E i \in DOMAIN reader'.actions : reader'.actions[i] = ReactorRemove)]_vars

\* what the code does on a leading 0xFF: it prints "protocol error!", returns
\* no action, and keeps state and buffer
BeginStepAsCoded ==
  [][BeginRun =>
       /\ BeginDecodes(decode_u64(RunInput, 0))
       /\ decode_u64(RunInput, 0).res = "Null"
            => /\ reader'.actions = <<>>
               /\ reader'.conn = "open"
               /\ reader'.state = Begin
               /\ reader'.buffer = RunInput
               /\ reader'.printed = << Line("protocol error!", <<>>) >>]_vars


\* C33: after a successful load of a log written by successful insert, remove
\* and compact calls, read is the length of the file and read - discarded is
\* encode_size of the index; a compact that directly follows the load leaves
\* the file shorter by exactly discarded bytes.
C33_LoadStatistics ==
  /\ Loaded =>
       /\ stats.read = Len(files[Home])
       /\ stats.read - stats.discarded = encode_size_map(map)
  /\ ( /\ pc = "idle" /\ ret.op = "compact" /\ ret.val.tag = "Ok" /\ cp.path = Home
       /\ cp.prev.op = "open_rw" /\ cp.prev.val.tag = "Ok" ) =>
       Len(files[Home]) = Len(cp.old[1]) - stats.discarded

\* C33 witness: a log with a replaced value was loaded and then compacted
C33_Witness ==
  /\ pc = "idle" /\ ret.op = "compact" /\ ret.val.tag = "Ok" /\ cp.path = Home
  /\ cp.prev.op = "open_rw" /\ cp.prev.val.tag = "Ok"
  /\ stats.discarded > 0 /\ map # <<>>
  /\ Len(files[Home]) < Len(cp.old[1])

\* the file replays to the index m
ReplaysTo(bytes, m) == decode_map(bytes).res = "Ok" /\ decode_map(bytes).data = m

\* C34: an insert or remove that returns IOError leaves the index unchanged
\* and no partial record in the log: a log that replayed to the index before
\* the call still does after it.
C34_AllOrNothing ==
  [][ \A op \in { "insert", "remove" } :
        (Returns(op) /\ ret'.val = Err("IOError") /\ ReplaysTo(files[file[1].path], map)) =>
           /\ map' = map
           /\ ReplaysTo(files'[file[1].path], map') ]_vars

\* the index is unchanged by a failing insert or remove (the part of C34 that holds)
FailedWriteKeepsIndex ==
  [][ \A op \in { "insert", "remove" } :
        (Returns(op) /\ ret'.val = Err("IOError")) => map' = map ]_vars

\* C35: compact drops the handle before any I/O; when it returns an error the
\* handle is None, and while it is None every insert, remove and compact
\* returns NotWritable and the handle stays None.
C35_FailedCompactReadOnly ==
  /\ [](pc \in { "compact_create", "compact_write", "compact_rename", "compact_reopen" }
          => file = None)
  /\ []((pc = "idle" /\ ret.op = "compact" /\ ret.val.tag = "Err") => file = None)
  /\ [][ (pc = "idle" /\ file = None /\ nops' = nops + 1
            /\ ret'.op \in { "insert", "remove", "compact" }) =>
           (ret'.val = Err("NotWritable") /\ file' = None /\ pc' = "idle") ]_vars

\* C35 witness: after a compact that failed, an insert was refused
C35_Witness ==
  /\ pc = "idle" /\ file = None /\ cp.path = Home /\ nfaults = 1
  /\ cp.file # None
  /\ ret.op = "insert" /\ ret.val = Err("NotWritable")

\* compact is being called or is under way
InCompact ==
  \/ pc \in { "compact_create", "compact_write", "compact_rename", "compact_reopen" }
  \/ pc = "idle" /\ nops' = nops + 1 /\ (ret'.op = "compact" \/ pc' = "compact_create")

\* C36: no step of compact, succeeding or failing, changes the index: get(k)
\* returns the same for every key before and after.
C36_CompactKeepsIndex ==
  [][ InCompact => \A k \in Keys : btree_get(map', k) = btree_get(map, k) ]_vars

\* C36 witness: compact has failed while writing path~, the index holding a key
C36_Witness ==
  /\ pc = "idle" /\ ret.op = "compact" /\ ret.val = Err("IOError")
  /\ map # <<>> /\ map = cp.map
  /\ cp.tmp = None /\ Exists(files, TmpPath(cp.path))

\* C37: remove(k) on a writable table for a key that is not in the index
\* appends encode(k) ++ [0xFF] to the log, returns Ok(None) and leaves the
\* index unchanged; when the log is loaded, a tombstone of a key that is not
\* in the map adds exactly keysize + 1 to discarded.
C37_RemoveAbsent ==
  /\ [][ (Returns("remove") /\ file # None /\ ret'.key[1] \notin DOMAIN map) =>
           /\ files'[file[1].path] = files[file[1].path] \o encode_i64(ret'.key[1]) \o << 255 >>
           /\ ret'.val = Ok(None)
           /\ map' = map ]_vars
  /\ [][ \A k \in Keys :
           ( /\ pc = "load" /\ k \notin DOMAIN ld.data
             /\ HasRecordAt(files[ld.path], ld.pos, encode_i64(k) \o << 255 >>) ) =>
              /\ ld'.data = ld.data
              /\ ld'.stats.discarded = ld.stats.discarded + Len(encode_i64(k)) + 1 ]_vars

\* C37 witness: the log of an insert and a remove of another key was loaded
C37_Witness ==
  /\ Loaded /\ map # <<>>
  /\ \E k \in Keys : \E j \in Keys \ { k } : \E v \in Values :
       /\ files[Home] = encode_i64(k) \o encode_bytes(v) \o encode_i64(j) \o << 255 >>
       /\ stats.discarded = Len(encode_i64(j)) + 1

\* C38: a successful compact(path) leaves at path only the serialization of
\* the index, and no path~, whatever a file at path~ held before; path~ is
\* empty when compact starts to write it.
C38_LeftoverTruncated ==
  /\ pc = "compact_write" => files[TmpPath(cp.path)] = <<>>
  /\ (pc = "idle" /\ ret.op = "compact" /\ ret.val.tag = "Ok") =>
       /\ files[ret.path] = encode_map(map)
       /\ ~Exists(files, TmpPath(ret.path))

\* C38 witness: a compact has succeeded over a path~ that was longer than the
\* compacted log
C38_Witness ==
  /\ pc = "idle" /\ ret.op = "compact" /\ ret.val.tag = "Ok"
  /\ map # <<>>
  /\ cp.tmp # None /\ Len(cp.tmp[1]) > Len(files[ret.path])


\* the bytes s begin with the bytes p
StartsWith(s, p) == Len(p) <= Len(s) /\ SubSeq(s, 1, Len(p)) = p

\* the lengths n for which s begins with a whole message of n bytes: its U64
\* length and then n bytes of payload
FrameLens(s) ==
  { n \in 0..Len(s) : StartsWith(s, encode_u64(n)) /\ Len(s) >= Len(encode_u64(n)) + n }

\* the payloads m1..mk of the messages that the bytes s are made of, when s is
\* a sequence of whole messages
RECURSIVE Unframe(_)
Unframe(s) ==
  IF s = <<>> \/ FrameLens(s) = {} THEN <<>>
  ELSE LET n == CHOOSE n \in FrameLens(s) : TRUE
           h == Len(encode_u64(n))
       IN << SubSeq(s, h + 1, h + n) >> \o Unframe(split_off(s, h + n))

\* the bytes of the messages ms on the wire
RECURSIVE Wire(_)
Wire(ms) ==
  IF ms = <<>> THEN <<>>
  ELSE encode_u64(Len(Head(ms))) \o Head(ms) \o Wire(Tail(ms))

\* the peer sends whole messages
SendsMessages(r) == r.conn # "none" /\ Wire(Unframe(r.sent)) = r.sent

\* the bytes the reader has read from its stream so far
Received(r) == SubSeq(r.sent, 1, Len(r.sent) - Len(r.stream))

\* the texts delivered are the first payloads of ms, and what was read and not
\* delivered is the length of the next message, if decoded, and the buffer
DeliversPrefix(r, ms) ==
  /\ Len(r.got) <= Len(ms)
  /\ \A i \in 1..Len(r.got) : as_bytes(r.got[i]) = ms[i]
  /\ Received(r) = Wire(SubSeq(ms, 1, Len(r.got)))
                     \o (IF r.state.tag = "ReadSize" THEN encode_u64(r.state.n) ELSE <<>>)
                     \o r.buffer
  /\ r.state.tag = "ReadSize" =>
       /\ Len(r.got) < Len(ms)
       /\ r.state.n = Len(ms[Len(r.got) + 1])

\* C31: for any messages m1..mk sent as U64 length and payload, however the
\* bytes are split into reads, the payloads delivered are a prefix of m1..mk,
\* in order and byte for byte; the bytes of a message that is not complete
\* stay in the buffer and are not consumed as part of another message.
C31_FramingDelivery ==
  SendsMessages(reader) => DeliversPrefix(reader, Unframe(reader.sent))

\* every payload is UTF-8 text (of the characters of the model: below 0x80)
TextOnly(ms) == \A i \in 1..Len(ms) : \A j \in 1..Len(ms[i]) : ms[i][j] < 128

\* the delivery of C31 for messages whose payloads are UTF-8 text, as the
\* command-line arguments sent by the client are
FramingOfText ==
  (SendsMessages(reader) /\ TextOnly(Unframe(reader.sent))) =>
     DeliversPrefix(reader, Unframe(reader.sent))

\* two messages of text have been delivered from one connection
FramingOfTextReached ==
  /\ SendsMessages(reader) /\ TextOnly(Unframe(reader.sent))
  /\ Len(reader.got) = 2 /\ reader.got[2] # <<>>

\* the buffer of r holds no whole frame: in ReadSize(n) fewer than n bytes,
\* in Begin no U64 length together with its payload
NoCompleteFrame(r) ==
  IF r.state.tag = "ReadSize" THEN Len(r.buffer) < r.state.n
  ELSE FrameLens(r.buffer) = {}

\* run has returned after reading data and the reader was not removed
RunReturned(r) == r.conn = "open" /\ Len(r.stream) < Len(r.sent)

\* C39: whenever run returns after reading data, the connection not removed,
\* the buffer holds no complete frame: every message whose length and payload
\* have arrived has been delivered, also one that follows a zero-length
\* message in the same read.
C39_BufferDrained ==
  RunReturned(reader) => NoCompleteFrame(reader)

\* the last line printed by the run is the delivery of a zero-length message
EndedOnEmptyMessage(r) ==
  /\ r.printed # <<>>
  /\ r.printed[Len(r.printed)] = Line("got", <<>>)

\* the part of C39 that holds: the buffer is drained by every run that did not
\* end on the delivery of a zero-length message
DrainedUnlessEmptyMessage ==
  (RunReturned(reader) /\ ~EndedOnEmptyMessage(reader)) => NoCompleteFrame(reader)


\* the canonical NaN: 7F F8 00 00 00 00 00 00
NanBytes == << 127, 248, 0, 0, 0, 0, 0, 0 >>

\* C32: f64_from_bytes(f64_to_bytes(x)) == x for every f64 x that is not a NaN
\* (normal, subnormal, both zeros with their sign, both infinities); every NaN
\* is written as the bytes 7F F8 00 00 00 00 00 00, which parse to a NaN.
C32_RoundTrip ==
  [][ (call.op = "f64_to_bytes" /\ call'.op = "f64_from_bytes") =>
        /\ Len(call.out) = 8
        /\ IF call.args[1].cls = "Nan"
           THEN call.out = NanBytes /\ call'.out.cls = "Nan"
           ELSE call'.out = call.args[1] ]_vars

\* C32 witness: the subnormal 1.125 * 2^-1023, written as 00 09 00 00 00 00
\* 00 00, has been parsed back
C32_Witness ==
  /\ call.op = "f64_from_bytes"
  /\ call.args[1] = << 0, 9, 0, 0, 0, 0, 0, 0 >>
  /\ call.out = Float("Finite", 1, -1023, << 0, 0, 1 >>)


\* the last action of todo that names fd, if there is one
LastFor(todo, fd) ==
  LET at == { i \in DOMAIN todo : todo[i].tag # "Stop" /\ todo[i].fd = fd }
  IN IF at = {} THEN None ELSE Some(todo[CHOOSE i \in at : \A j \in at : j <= i])

\* the readers after the actions of todo were applied in their order: fd is a
\* reader if the last action naming it added it or, no action naming it, it
\* was one
ReadersAfter(readers, todo) ==
  { fd \in Fds : IF LastFor(todo, fd) = None THEN fd \in readers
                 ELSE LastFor(todo, fd)[1].tag = "Add" }

\* stop is requested by todo
StopIn(todo) == \E i \in DOMAIN todo : todo[i].tag = "Stop"

====
